---- MODULE Spec2Model ----
(***************************************************************************)
(* The mutable repository transaction layer of jj (lib/src/repo.rs):       *)
(* the view (heads, working-copy commits, local bookmarks) behind its      *)
(* dirty cell, the rewrite ledger parent_mapping, and the propagation of   *)
(* the ledger to descendants, bookmarks, working copies and heads.         *)
(*                                                                         *)
(* Commit ids are the positions 1..Len(commits) of the store; a commit is  *)
(* written after its parents, so parent ids are smaller than the id.       *)
(***************************************************************************)
EXTENDS Integers, Sequences, FiniteSets, TLC

\* ------------------------------------------------------------------ bounds
MaxCommits == 12     \* commits the store may hold
MaxOps == 2          \* ledger and view calls made in one transaction
MaxCalls == 2        \* transform_* and rebase calls made in one transaction

\* --------------------------------------------------------------- constants
Root == 1            \* store().root_commit_id()
NoId == 0            \* Option<CommitId>::None

Workspaces == <<"w1", "w2">>      \* workspace names, in BTreeMap order
WorkspaceNames == {Workspaces[i] : i \in 1..Len(Workspaces)}
BookmarkNames == {"bk"}
EmptyTree == {}

VARIABLES
    commits,          \* the commit store (and index): id -> commit
    head_ids,         \* view.head_ids as stored in the dirty cell
    dirty,            \* TRUE when the view sits in the cell's dirty slot
    wc_commit_ids,    \* view.wc_commit_ids: workspace -> id, NoId when absent
    local_bookmarks,  \* view.local_bookmarks: name -> RefTarget (a merge)
    parent_mapping,   \* the rewrite ledger: old id -> Rewrite
    commit_predecessors, \* new commit id -> the ids of its predecessors
    panicked,         \* an assertion of the program has aborted it
    pc,               \* "idle", or "transform" inside transform_commits
    to_visit,         \* transform_commits: the stack still to pop
    call,             \* the transform_* or rebase call in progress
    visited,          \* old commits passed to the callback by that call
    progress,         \* <<old, new>> pairs reported to the progress callback
    last,             \* the API call that returned last, and how
    nops,             \* ledger and view calls made so far
    ncalls,           \* transform_* and rebase calls made so far
    op_store,         \* the operation store: operation id -> operation
    op_heads,         \* the op heads store: the ids of the head operations
    tx,               \* merge_operations: the transaction that merges, or NoTx
    cell,             \* the view's DirtyCell: its RefCell borrows and the calls inside it
    num,              \* the counters of the should_restore closure of the call
    attrs,            \* the GitAttributesFile values made so far
    refs              \* view.tags, git_refs, remote_bookmarks and git_head

vars == <<commits, head_ids, dirty, wc_commit_ids, local_bookmarks,
          parent_mapping, commit_predecessors, panicked, pc, to_visit, call, visited, progress,
          last, nops, ncalls, op_store, op_heads, tx, cell, num, attrs, refs>>

\* the state of the RepoLoader and of its stores
loader_vars == <<op_store, op_heads, tx>>

\* ------------------------------------------------------- sequence helpers
SeqToSet(s) == {s[i] : i \in 1..Len(s)}

Contains(s, x) == \E i \in 1..Len(s) : s[i] = x

RECURSIVE Reverse(_)
\* a sequence left in its order
SameOrder(s) == s

Reverse(s) == IF s = <<>> THEN <<>> ELSE Append(Reverse(Tail(s)), Head(s))

\* a sequence left with its duplicates
WithDuplicates(s) == s

\* itertools unique(): first occurrences, in order
RECURSIVE Unique(_)
Unique(s) ==
    IF s = <<>> THEN <<>>
    ELSE LET r == Unique(SubSeq(s, 1, Len(s) - 1))
             x == s[Len(s)]
         IN IF Contains(r, x) THEN r ELSE Append(r, x)

RECURSIVE FlatMap(_, _)
FlatMap(F(_), s) == IF s = <<>> THEN <<>> ELSE F(Head(s)) \o FlatMap(F, Tail(s))

\* the elements of a set of numbers as a sequence, largest first
RECURSIVE Descending(_)
Descending(S) ==
    IF S = {} THEN <<>>
    ELSE LET m == CHOOSE x \in S : \A y \in S : y <= x
         IN <<m>> \o Descending(S \ {m})

\* ------------------------------------------------------- commit graph
CommitIds(cs) == 1..Len(cs)

RECURSIVE Ancestors(_, _)
\* index ancestry: the commit itself and everything reachable over parents
Ancestors(cs, id) ==
    {id} \cup UNION {Ancestors(cs, cs[id].parents[i]) : i \in 1..Len(cs[id].parents)}

IsAncestor(cs, a, b) == a \in Ancestors(cs, b)

AncestorsOf(cs, S) == UNION {Ancestors(cs, x) : x \in S}

\* index.heads(): the ids of the set that are no ancestor of another one
IndexHeads(cs, S) == {x \in S : \A y \in S \ {x} : ~IsAncestor(cs, x, y)}

\* revset parents(): the parents of the commits of S
ParentsOf(cs, S) == UNION {SeqToSet(cs[x].parents) : x \in S}

\* ------------------------------------------------------- the rewrite ledger
Rewritten(new_id) == [kind |-> "Rewritten", ids |-> <<new_id>>]
Divergent(new_ids) == [kind |-> "Divergent", ids |-> new_ids]
Abandoned(new_parent_ids) == [kind |-> "Abandoned", ids |-> new_parent_ids]

RewriteKinds == {"Rewritten", "Divergent", "Abandoned"}

\* Rewrite::new_parent_ids
NewParentIds(rewrite) == rewrite.ids

\* an insert that keeps the entry the key has
InsertIfVacant(m, k, v) ==
    [x \in DOMAIN m \cup {k} |-> IF x \in DOMAIN m THEN m[x] ELSE v]

\* HashMap::insert: the entry of key k is replaced, the others are kept
MapInsert(m, k, v) == [x \in DOMAIN m \cup {k} |-> IF x = k THEN v ELSE m[x]]

\* parent_mapping.get(id).filter(predicate): a predicate is the set of the
\* kinds it lets pass
Passes(pm, id, pred) == id \in DOMAIN pm /\ pm[id].kind \in pred

RECURSIVE RewrittenIdsLoop(_, _, _, _, _)
\* the while loop of rewritten_ids_with; to_visit is popped from its end
RewrittenIdsLoop(pm, pred, stack, seen, new_ids) ==
    IF stack = <<>>
    THEN [panic |-> new_ids = <<>>, ids |-> new_ids]
    ELSE LET id == stack[Len(stack)]
             rest == SubSeq(stack, 1, Len(stack) - 1)
         IN IF id \in seen
            THEN RewrittenIdsLoop(pm, pred, rest, seen, new_ids)
            ELSE IF Passes(pm, id, pred)
                 THEN IF NewParentIds(pm[id]) = <<>>
                      THEN [panic |-> TRUE, ids |-> <<>>]
                      ELSE RewrittenIdsLoop(pm, pred,
                               rest \o Reverse(NewParentIds(pm[id])),
                               seen \cup {id}, new_ids)
                 ELSE RewrittenIdsLoop(pm, pred, rest, seen \cup {id},
                                       Append(new_ids, id))

RewrittenIdsWith(pm, old_ids, pred) ==
    IF old_ids = <<>>
    THEN [panic |-> TRUE, ids |-> <<>>]
    ELSE RewrittenIdsLoop(pm, pred, Reverse(old_ids), {}, <<>>)

\* a lookup that follows the entries of every kind
NewParentsOfAnyKind(pm, old_ids) == RewrittenIdsWith(pm, old_ids, RewriteKinds)

NewParents(pm, old_ids) == RewrittenIdsWith(pm, old_ids, {"Rewritten", "Abandoned"})

\* the ids an entry that passes the predicate leads to
Successors(pm, pred, id) ==
    IF Passes(pm, id, pred) THEN SeqToSet(NewParentIds(pm[id])) ELSE {}

RECURSIVE ReachableFrom(_, _, _)
ReachableFrom(pm, pred, S) ==
    LET next == S \cup UNION {Successors(pm, pred, x) : x \in S}
    IN IF next = S THEN S ELSE ReachableFrom(pm, pred, next)

\* dag_walk::topo_order_forward panics ("graph has cycle") exactly when the
\* walk from the keys meets a cycle
LedgerHasCycle(pm, pred) ==
    \E k \in DOMAIN pm : k \in ReachableFrom(pm, pred, Successors(pm, pred, k))

RECURSIVE ResolveKey(_, _, _)
\* the value new_mapping gets for a key whose entry passes the predicate:
\* every new parent id is looked up in the entries resolved before it
ResolveKey(pm, pred, old_id) ==
    LET Lookup(id) == IF Passes(pm, id, pred) THEN ResolveKey(pm, pred, id) ELSE <<id>>
        ids == NewParentIds(pm[old_id])
    IN IF Len(ids) = 1 THEN Lookup(ids[1]) ELSE Unique(FlatMap(Lookup, ids))

ResolveRewriteMappingWith(pm, pred) ==
    IF LedgerHasCycle(pm, pred)
    THEN [panic |-> TRUE, map |-> <<>>]
    ELSE [panic |-> FALSE,
          map |-> [k \in {x \in DOMAIN pm : Passes(pm, x, pred)} |->
                      ResolveKey(pm, pred, k)]]

RECURSIVE Orders(_)
\* the orders in which a hash map or hash set may hand out its keys
Orders(S) ==
    IF S = {} THEN {<<>>}
    ELSE UNION {{<<x>> \o o : o \in Orders(S \ {x})} : x \in S}

\* the orders of the keys whatever the entries lead to
AnyKeyOrders(pm, pred) == Orders(DOMAIN pm)

\* sorted_ids: dag_walk::topo_order_forward hands out a key after the keys
\* its entry leads to, in an order that otherwise follows the hash map's
TopoKeyOrders(pm, pred) ==
    {o \in Orders(DOMAIN pm) :
        \A i \in 1..Len(o), j \in 1..Len(o) :
            o[j] \in Successors(pm, pred, o[i]) => j < i}

RECURSIVE ResolveLoop(_, _, _, _)
\* the for loop of resolve_rewrite_mapping_with over sorted_ids
ResolveLoop(pm, pred, sorted_ids, new_mapping) ==
    IF sorted_ids = <<>> THEN new_mapping
    ELSE LET old_id == Head(sorted_ids)
             Lookup(id) == IF id \in DOMAIN new_mapping THEN new_mapping[id] ELSE <<id>>
             ids == NewParentIds(pm[old_id])
             new_ids == IF Len(ids) = 1 THEN Lookup(ids[1])
                        ELSE Unique(FlatMap(Lookup, ids))
         IN IF ~Passes(pm, old_id, pred)
            THEN ResolveLoop(pm, pred, Tail(sorted_ids), new_mapping)
            ELSE ResolveLoop(pm, pred, Tail(sorted_ids),
                             MapInsert(new_mapping, old_id, new_ids))

\* ------------------------------------------------------- ref targets
\* A RefTarget is a Merge<Option<CommitId>>: an odd-length sequence, adds at
\* the odd positions (1, 3, ..) and removes at the even ones.
Absent == <<NoId>>
Normal(id) == <<id>>

Adds(t) == [i \in 1..((Len(t) + 1) \div 2) |-> t[2 * i - 1]]
Removes(t) == [i \in 1..(Len(t) \div 2) |-> t[2 * i]]

AddedIds(t) == {t[i] : i \in {j \in 1..Len(t) : j % 2 = 1 /\ t[j] # NoId}}

IsAbsent(t) == t = Absent

\* trivial_merge of [left, base, right]
TrivialMerge3(left, base, right) ==
    IF left = right THEN [some |-> TRUE, value |-> left]
    ELSE IF left = base THEN [some |-> TRUE, value |-> right]
    ELSE IF right = base THEN [some |-> TRUE, value |-> left]
    ELSE [some |-> FALSE, value |-> left]

\* Merge::flatten for the three merges left, base, right: the terms of base
\* are added with adds and removes exchanged
FlattenRemove(t) ==
    LET rot == Tail(t) \o <<Head(t)>>
    IN [i \in 1..Len(t) |->
          IF i = Len(t) THEN rot[i]
          ELSE IF i % 2 = 1 THEN rot[i + 1] ELSE rot[i - 1]]

Flatten3(left, base, right) == left \o FlattenRemove(base) \o right

RemoveAt(s, i) == SubSeq(s, 1, i - 1) \o SubSeq(s, i + 1, Len(s))

RECURSIVE SimplifyFrom(_, _)
\* Merge::simplify: an add equal to a remove cancels with it; the add is
\* first moved next to the remove so that the other diffs stay aligned
SimplifyFrom(t, add_pos) ==
    IF add_pos > Len(t) THEN t
    ELSE LET hits == {r \in 1..Len(t) : r % 2 = 0 /\ t[r] = t[add_pos]}
         IN IF hits = {} THEN SimplifyFrom(t, add_pos + 2)
            ELSE LET r == CHOOSE x \in hits : \A y \in hits : x <= y
                     swapped == [i \in 1..Len(t) |->
                                   IF i = r + 1 THEN t[add_pos]
                                   ELSE IF i = add_pos THEN t[r + 1]
                                   ELSE t[i]]
                 IN SimplifyFrom(RemoveAt(RemoveAt(swapped, r), r), add_pos)

Simplify(t) == SimplifyFrom(t, 1)

\* Vec::swap_remove: the last element takes the place of the removed one
SwapRemoveAt(s, i) ==
    IF i = Len(s) THEN SubSeq(s, 1, Len(s) - 1)
    ELSE [j \in 1..(Len(s) - 1) |-> IF j = i THEN s[Len(s)] ELSE s[j]]

\* Merge::swap_remove(remove_index, add_index), indexes counted from 1
MergeSwapRemove(t, remove_index, add_index) ==
    SwapRemoveAt(SwapRemoveAt(t, 2 * add_index - 1), 2 * remove_index)

\* find_pair_to_remove: an add that equals or is an ancestor of another add,
\* with the first remove that is absent or an ancestor of it
PairsToRemove(cs, t) ==
    LET adds == Adds(t)
        removes == Removes(t)
        Pick(i1, i2) ==
            IF adds[i1] = NoId \/ adds[i2] = NoId THEN 0
            ELSE IF adds[i1] = adds[i2] THEN i1
            ELSE IF IsAncestor(cs, adds[i1], adds[i2]) THEN i1
            ELSE IF IsAncestor(cs, adds[i2], adds[i1]) THEN i2
            ELSE 0
        Matching(a) == {r \in 1..Len(removes) :
                           removes[r] = NoId \/ IsAncestor(cs, removes[r], adds[a])}
    IN {p \in (1..Len(adds)) \X (1..Len(adds)) :
           p[1] < p[2] /\ Pick(p[1], p[2]) # 0 /\ Matching(Pick(p[1], p[2])) # {}}

RECURSIVE MergeRefTargetsNonTrivial(_, _)
MergeRefTargetsNonTrivial(cs, t) ==
    LET pairs == PairsToRemove(cs, t)
    IN IF pairs = {} THEN t
       ELSE LET adds == Adds(t)
                removes == Removes(t)
                \* the loops take the first pair in (add_index1, add_index2) order
                p == CHOOSE x \in pairs : \A y \in pairs :
                         x[1] < y[1] \/ (x[1] = y[1] /\ x[2] <= y[2])
                a == IF adds[p[1]] = adds[p[2]] \/ IsAncestor(cs, adds[p[1]], adds[p[2]])
                     THEN p[1] ELSE p[2]
                rs == {r \in 1..Len(removes) :
                          removes[r] = NoId \/ IsAncestor(cs, removes[r], adds[a])}
                r == CHOOSE x \in rs : \A y \in rs : x <= y
            IN MergeRefTargetsNonTrivial(cs, MergeSwapRemove(t, r, a))

\* refs::merge_ref_targets(index, left, base, right)
MergeRefTargets(cs, left, base, right) ==
    LET trivial == TrivialMerge3(left, base, right)
    IN IF trivial.some THEN trivial.value
       ELSE LET merge == Simplify(Flatten3(left, base, right))
            IN IF Len(merge) = 1 THEN merge
               ELSE MergeRefTargetsNonTrivial(cs, merge)

\* a target made of the first new id alone
KeepFirstId(s, x) == <<s[1]>>

\* itertools::intersperse(new_commit_ids, old_commit_id)
RECURSIVE Intersperse(_, _)
Intersperse(s, x) ==
    IF Len(s) <= 1 THEN s ELSE <<Head(s), x>> \o Intersperse(Tail(s), x)

\* ------------------------------------------------------- trees
\* A tree is the set of the files it holds. The tree-merge primitive takes,
\* file by file, the side that differs from the base.
MergeTrees(side1, base, side2) ==
    {f \in side1 \cup base \cup side2 :
        IF (f \in side1) = (f \in base) THEN f \in side2 ELSE f \in side1}

RECURSIVE MergeCommitTrees(_, _)
\* rewrite::merge_commit_trees: the trees of the commits merged one after
\* the other, each against the merged tree of the common ancestors
MergeCommitTrees(cs, ids) ==
    IF ids = <<>> THEN EmptyTree
    ELSE IF Len(ids) = 1 THEN cs[ids[1]].tree
    ELSE LET front == SubSeq(ids, 1, Len(ids) - 1)
             other == ids[Len(ids)]
             common == IndexHeads(cs, AncestorsOf(cs, SeqToSet(front))
                                         \cap Ancestors(cs, other))
         IN MergeTrees(MergeCommitTrees(cs, front),
                       MergeCommitTrees(cs, Descending(common)),
                       cs[other].tree)

\* Commit::is_discardable: no description and no change to the parents' tree
IsDiscardable(cs, id) ==
    /\ cs[id].desc = 0
    /\ cs[id].tree = MergeCommitTrees(cs, cs[id].parents)

\* ------------------------------------------------------- MutableRepo
\* The MutableRepo as one value, for the operations that call each other.
\* ok is the Result of the call in progress (FALSE: it returned Err).
\* the refs of the view that the rewrite ledger is not applied to: a tag and a
\* git ref on C, the remote bookmark bk@origin on B and tracked, HEAD of the
\* git repository on D
BaseRefs ==
    [tags |-> [v1 |-> Normal(4)],
     git_refs |-> [main |-> Normal(4)],
     remote_bookmarks |-> [origin |-> [target |-> Normal(3), state |-> "Tracked"]],
     git_head |-> Normal(5)]

RepoRecord(cs, h, d, wc, bm, pm, pan) ==
    [commits |-> cs, head_ids |-> h, dirty |-> d, wc_commit_ids |-> wc,
     local_bookmarks |-> bm, parent_mapping |-> pm, commit_predecessors |-> <<>>,
     refs |-> BaseRefs, panicked |-> pan, ok |-> TRUE]

Panic(r) == [r EXCEPT !.panicked = TRUE, !.ok = FALSE]

EnforceViewInvariants(cs, hs) ==
    IF hs = {} THEN {Root}
    ELSE IF Cardinality(hs) > 1 THEN IndexHeads(cs, hs \ {Root})
    ELSE hs

\* view(): DirtyCell::get_or_ensure_clean(enforce_view_invariants)
EnsureClean(r) ==
    IF r.dirty
    THEN [r EXCEPT !.head_ids = EnforceViewInvariants(r.commits, @), !.dirty = FALSE]
    ELSE r

\* the view a repository record shows
ViewOf(r) ==
    [head_ids |-> EnsureClean(r).head_ids, wc_commit_ids |-> r.wc_commit_ids,
     local_bookmarks |-> r.local_bookmarks]

\* add_head(head): add_heads(&[head])
AddHead(r, head) ==
    IF SeqToSet(r.commits[head].parents) \subseteq r.head_ids
    THEN [r EXCEPT !.head_ids = (@ \cup {head}) \ SeqToSet(r.commits[head].parents)]
    ELSE [r EXCEPT !.head_ids = @ \cup {head}, !.dirty = TRUE]

RemoveHeadOp(r, head) == [r EXCEPT !.head_ids = @ \ {head}, !.dirty = TRUE]

\* set_rewritten_commit without its assertion on the root commit
InsertRewrittenUnchecked(r, old_id, new_id) ==
    [r EXCEPT !.parent_mapping = MapInsert(@, old_id, Rewritten(new_id))]

SetRewrittenCommitOp(r, old_id, new_id) ==
    IF old_id = Root THEN Panic(r)
    ELSE [r EXCEPT !.parent_mapping = MapInsert(@, old_id, Rewritten(new_id))]

SetDivergentRewriteOp(r, old_id, new_ids) ==
    IF old_id = Root THEN Panic(r)
    ELSE [r EXCEPT !.parent_mapping = MapInsert(@, old_id, Divergent(new_ids))]

RecordAbandonedCommitWithParentsOp(r, old_id, new_parent_ids) ==
    IF old_id = Root THEN Panic(r)
    ELSE [r EXCEPT !.parent_mapping = MapInsert(@, old_id, Abandoned(new_parent_ids))]

RecordAbandonedCommitOp(r, old_id) ==
    IF old_id = Root THEN Panic(r)
    ELSE RecordAbandonedCommitWithParentsOp(r, old_id, r.commits[old_id].parents)

\* a set_predecessors that forgets the entries of the other commits
SetOnlyPredecessorsOp(r, id, predecessors) ==
    [r EXCEPT !.commit_predecessors = MapInsert(<<>>, id, predecessors)]

\* set_predecessors(id, predecessors)
SetPredecessorsOp(r, id, predecessors) ==
    [r EXCEPT !.commit_predecessors = MapInsert(@, id, predecessors)]

\* CommitBuilder::write: the commit gets the next id, becomes visible, its
\* predecessors are recorded (the commit it rewrites, none for a new change),
\* and a rewrite of a commit with the same change id is recorded in the ledger
WriteCommit(r, commit, rewrite_source) ==
    LET id == Len(r.commits) + 1
        predecessors == IF rewrite_source = NoId THEN <<>> ELSE <<rewrite_source>>
        r1 == SetPredecessorsOp(
                  AddHead([r EXCEPT !.commits = Append(@, commit)], id),
                  id, predecessors)
    IN IF rewrite_source # NoId /\ r.commits[rewrite_source].change = commit.change
       THEN SetRewrittenCommitOp(r1, rewrite_source, id)
       ELSE r1

\* a new commit put on the root commit
NewCommitOnRoot(r, parents, tree) ==
    [parents |-> <<Root>>, tree |-> tree, desc |-> 0, change |-> Len(r.commits) + 1]

\* new_commit(parents, tree_id): a new change with an empty description
NewCommit(r, parents, tree) ==
    [parents |-> parents, tree |-> tree, desc |-> 0, change |-> Len(r.commits) + 1]

SetWcCommitOp(r, name, commit_id) ==
    IF commit_id = Root THEN [r EXCEPT !.ok = FALSE]
    ELSE [r EXCEPT !.wc_commit_ids[name] = commit_id]

IsCommitReferenced(r, workspace_name, commit_id) ==
    \/ \E n \in WorkspaceNames \ {workspace_name} : r.wc_commit_ids[n] = commit_id
    \/ \E b \in DOMAIN r.local_bookmarks : commit_id \in AddedIds(r.local_bookmarks[b])

\* a maybe_abandon_wc_commit that does not ask whether the commit is a head
MaybeAbandonHiddenWcCommit(r, workspace_name) ==
    LET wc_commit_id == r.wc_commit_ids[workspace_name]
    IN IF wc_commit_id = NoId THEN r
       ELSE IF IsDiscardable(r.commits, wc_commit_id)
               /\ ~IsCommitReferenced(r, workspace_name, wc_commit_id)
            THEN RecordAbandonedCommitOp(EnsureClean(r), wc_commit_id)
            ELSE r

MaybeAbandonWcCommit(r, workspace_name) ==
    LET wc_commit_id == r.wc_commit_ids[workspace_name]
    IN IF wc_commit_id = NoId THEN r
       ELSE IF IsDiscardable(r.commits, wc_commit_id)
               /\ ~IsCommitReferenced(r, workspace_name, wc_commit_id)
            THEN LET r1 == EnsureClean(r)
                 IN IF wc_commit_id \in r1.head_ids
                    THEN RecordAbandonedCommitOp(r1, wc_commit_id)
                    ELSE r1
            ELSE r

EditOp(r, name, commit_id) ==
    LET r1 == MaybeAbandonWcCommit(r, name)
    IN IF r1.panicked THEN r1
       ELSE SetWcCommitOp(AddHead(r1, commit_id), name, commit_id)

RemoveWcCommitOp(r, name) ==
    LET r1 == MaybeAbandonWcCommit(r, name)
    IN IF r1.panicked THEN r1 ELSE [r1 EXCEPT !.wc_commit_ids[name] = NoId]

CheckOutOp(r, name, commit_id) ==
    LET r1 == WriteCommit(r, NewCommit(r, <<commit_id>>, r.commits[commit_id].tree), NoId)
    IN EditOp(r1, name, Len(r1.commits))

SetLocalBookmarkTargetOp(r, name, target) ==
    [r EXCEPT !.head_ids = @ \cup AddedIds(target),
              !.local_bookmarks[name] = target,
              !.dirty = TRUE]

\* a merge that takes the target of the other side
TakeOtherBookmark(r, name, base_target, other_target) ==
    SetLocalBookmarkTargetOp(r, name, other_target)

MergeLocalBookmark(r, name, base_target, other_target) ==
    SetLocalBookmarkTargetOp(r, name,
        MergeRefTargets(r.commits, r.local_bookmarks[name], base_target, other_target))

\* ------------------------------------------------------- reference updates
BookmarkSeq == <<"bk", "dev">>    \* bookmark names, in BTreeMap order

\* the names of a map of bookmarks, in that order
BookmarksOf(bookmarks) == SelectSeq(BookmarkSeq, LAMBDA name : name \in DOMAIN bookmarks)

\* the added ids of a target that are keys of the rewrite mapping, in order
ChangedAddedIds(t, map) ==
    LET Keep(i) == IF i % 2 = 1 /\ t[i] # NoId /\ t[i] \in DOMAIN map
                   THEN <<t[i]>> ELSE <<>>
    IN FlatMap(Keep, [i \in 1..Len(t) |-> i])

\* changed_branches of update_local_bookmarks: <<name, old_commit_id>>
ChangedBranches(r, map) ==
    LET Of(name) ==
            LET olds == ChangedAddedIds(r.local_bookmarks[name], map)
            IN [i \in 1..Len(olds) |-> <<name, olds[i]>>]
    IN FlatMap(Of, BookmarksOf(r.local_bookmarks))

RECURSIVE UpdateLocalBookmarksLoop(_, _, _, _)
UpdateLocalBookmarksLoop(r, map, changed, delete_abandoned_bookmarks) ==
    IF changed = <<>> THEN r
    ELSE LET bookmark_name == Head(changed)[1]
             old_commit_id == Head(changed)[2]
             should_delete ==
                 /\ delete_abandoned_bookmarks
                 /\ old_commit_id \in DOMAIN r.parent_mapping
                 /\ r.parent_mapping[old_commit_id].kind = "Abandoned"
             new_target == IF should_delete THEN Absent
                           ELSE Intersperse(map[old_commit_id], old_commit_id)
         IN UpdateLocalBookmarksLoop(
                MergeLocalBookmark(r, bookmark_name, Normal(old_commit_id), new_target),
                map, Tail(changed), delete_abandoned_bookmarks)

\* an update of the bookmarks that never deletes one
UpdateLocalBookmarksRetaining(r, map, delete_abandoned_bookmarks) ==
    LET r1 == EnsureClean(r)
    IN UpdateLocalBookmarksLoop(r1, map, ChangedBranches(r1, map), FALSE)

UpdateLocalBookmarks(r, map, delete_abandoned_bookmarks) ==
    LET r1 == EnsureClean(r)
    IN UpdateLocalBookmarksLoop(r1, map, ChangedBranches(r1, map),
                                delete_abandoned_bookmarks)

\* changed_wc_commits of update_wc_commits: <<name, old_commit_id>>
ChangedWcCommits(r, map) ==
    LET Of(name) == IF r.wc_commit_ids[name] \in DOMAIN map
                    THEN << <<name, r.wc_commit_ids[name]>> >> ELSE <<>>
    IN FlatMap(Of, Workspaces)

\* a choice of the last candidate
PickLastCommit(new_commit_ids) == new_commit_ids[Len(new_commit_ids)]

\* "We arbitrarily pick a new working-copy commit among the candidates":
\* new_commit_ids[0]
PickNewWcCommit(new_commit_ids) == new_commit_ids[1]

RECURSIVE UpdateWcCommitsLoop(_, _, _, _)
\* recreated: old commit id -> the new working-copy commit made for it
UpdateWcCommitsLoop(r, map, changed, recreated) ==
    IF changed = <<>> \/ r.panicked THEN r
    ELSE LET name == Head(changed)[1]
             old_commit_id == Head(changed)[2]
             new_commit_ids == map[old_commit_id]
             abandoned_old_commit ==
                 /\ old_commit_id \in DOMAIN r.parent_mapping
                 /\ r.parent_mapping[old_commit_id].kind = "Abandoned"
         IN IF ~abandoned_old_commit
            THEN IF new_commit_ids = <<>> THEN Panic(r)
                 ELSE LET r1 == EditOp(r, name, PickNewWcCommit(new_commit_ids))
                      IN UpdateWcCommitsLoop(IF r1.ok THEN r1 ELSE Panic(r1),
                                             map, Tail(changed), recreated)
            ELSE IF old_commit_id \in DOMAIN recreated
            THEN LET r1 == EditOp(r, name, recreated[old_commit_id])
                 IN UpdateWcCommitsLoop(IF r1.ok THEN r1 ELSE Panic(r1),
                                        map, Tail(changed), recreated)
            ELSE LET tree == MergeCommitTrees(r.commits, new_commit_ids)
                     r1 == WriteCommit(r, NewCommit(r, new_commit_ids, tree), NoId)
                     commit == Len(r1.commits)
                     r2 == EditOp(r1, name, commit)
                 IN UpdateWcCommitsLoop(IF r2.ok THEN r2 ELSE Panic(r2),
                                        map, Tail(changed),
                                        MapInsert(recreated, old_commit_id, commit))

UpdateWcCommits(r, map) ==
    LET r1 == EnsureClean(r)
    IN UpdateWcCommitsLoop(r1, map, ChangedWcCommits(r1, map), <<>>)

UpdateAllReferences(r, delete_abandoned_bookmarks) ==
    LET resolved == ResolveRewriteMappingWith(r.parent_mapping, RewriteKinds)
    IN IF resolved.panic THEN Panic(r)
       ELSE UpdateWcCommits(
                UpdateLocalBookmarks(r, resolved.map, delete_abandoned_bookmarks),
                resolved.map)

\* an update of the heads that only drops the keys of the ledger
UpdateHeadsDropKeys(r) ==
    LET r1 == EnsureClean(r)
    IN [r1 EXCEPT !.head_ids = @ \ DOMAIN r.parent_mapping, !.dirty = TRUE]

\* an update_heads that adds the parents and removes nothing
UpdateHeadsKeepingKeys(r) ==
    LET keys == DOMAIN r.parent_mapping
        r1 == EnsureClean(r)
    IN [r1 EXCEPT !.head_ids = @ \cup (ParentsOf(r.commits, keys) \ keys),
                  !.dirty = TRUE]

UpdateHeads(r) ==
    LET keys == DOMAIN r.parent_mapping
        heads_to_add == ParentsOf(r.commits, keys) \ keys
        r1 == EnsureClean(r)
    IN [r1 EXCEPT !.head_ids = (@ \ keys) \cup heads_to_add, !.dirty = TRUE]

\* an update that moves the tags along with the local bookmarks
UpdateReferencesAndTags(r, delete_abandoned_bookmarks) ==
    LET resolved == ResolveRewriteMappingWith(r.parent_mapping, RewriteKinds)
        r1 == UpdateAllReferences(r, delete_abandoned_bookmarks)
        Moved(target) ==
            IF Len(target) = 1 /\ target[1] \in DOMAIN resolved.map
            THEN Normal(resolved.map[target[1]][1])
            ELSE target
    IN IF r1.panicked THEN r1
       ELSE [UpdateHeads(r1) EXCEPT
                !.refs.tags = [name \in DOMAIN @ |-> Moved(@[name])]]

UpdateRewrittenReferences(r, delete_abandoned_bookmarks) ==
    LET r1 == UpdateAllReferences(r, delete_abandoned_bookmarks)
    IN IF r1.panicked THEN r1 ELSE UpdateHeads(r1)

RECURSIVE RemoveHeadsLoop(_, _)
\* update_heads: "for commit_id in self.parent_mapping.keys()" in the order
\* the hash map hands the keys out
RemoveHeadsLoop(heads, key_order) ==
    IF key_order = <<>> THEN heads
    ELSE RemoveHeadsLoop(heads \ {Head(key_order)}, Tail(key_order))

\* update_heads with the iteration order of parent_mapping made explicit
UpdateHeadsInOrder(r, key_order) ==
    LET keys == SeqToSet(key_order)
        heads_to_add == ParentsOf(r.commits, keys) \ keys
        r1 == EnsureClean(r)
    IN [r1 EXCEPT !.head_ids = RemoveHeadsLoop(@, key_order) \cup heads_to_add,
                  !.dirty = TRUE]

\* ------------------------------------------------------- descendants
\* revset descendants(): the visible commits that have a root as ancestor
Descendants(cs, heads, roots) ==
    {x \in AncestorsOf(cs, heads) : Ancestors(cs, x) \cap roots # {}}

\* a search of the descendants that keeps the keys of the ledger
FindDescendantsWithKeys(r, roots) ==
    Descending(Descendants(r.commits, r.head_ids, roots))

\* the view is clean; the revset yields the newest commit first
FindDescendantsForRebase(r, roots) ==
    Descending(Descendants(r.commits, r.head_ids, roots) \ DOMAIN r.parent_mapping)

ParentIdsFor(cs, new_parents_map, id) ==
    IF id \in DOMAIN new_parents_map THEN new_parents_map[id] ELSE cs[id].parents

\* the neighbours closure of order_commits_for_rebase; seen is its visited
\* set, the commit itself included
Dependents(cs, pm, new_parents_map, to_visit_set, seen, id) ==
    LET Of(parent_id) ==
            LET targets == IF parent_id \in DOMAIN pm
                           THEN NewParentIds(pm[parent_id]) ELSE <<>>
                Wanted(target) == IF target \in to_visit_set /\ target \notin seen
                                  THEN <<target>> ELSE <<>>
            IN FlatMap(Wanted, targets)
               \o (IF parent_id \in to_visit_set THEN <<parent_id>> ELSE <<>>)
    IN FlatMap(Of, ParentIdsFor(cs, new_parents_map, id))

RECURSIVE TopoOrderLoop(_, _, _, _, _, _, _, _, _)
\* dag_walk::topo_order_forward: a stack of <<node, neighbours visited>>,
\* popped from its end; a node met again while being visited is a cycle
TopoOrderLoop(cs, pm, new_parents_map, to_visit_set, stack, visiting, emitted, result, seen) ==
    IF stack = <<>> THEN [panic |-> FALSE, order |-> result]
    ELSE LET node == stack[Len(stack)][1]
             neighbors_visited == stack[Len(stack)][2]
             rest == SubSeq(stack, 1, Len(stack) - 1)
         IN IF node \in emitted
            THEN TopoOrderLoop(cs, pm, new_parents_map, to_visit_set, rest,
                               visiting, emitted, result, seen)
            ELSE IF neighbors_visited
            THEN TopoOrderLoop(cs, pm, new_parents_map, to_visit_set, rest,
                               visiting \ {node}, emitted \cup {node},
                               Append(result, node), seen)
            ELSE IF node \in visiting
            THEN [panic |-> TRUE, order |-> <<>>]
            ELSE LET seen1 == seen \cup {node}
                     deps == Dependents(cs, pm, new_parents_map, to_visit_set,
                                        seen1, node)
                 IN TopoOrderLoop(cs, pm, new_parents_map, to_visit_set,
                        rest \o <<<<node, TRUE>>>>
                             \o [i \in 1..Len(deps) |-> <<deps[i], FALSE>>],
                        visiting \cup {node}, emitted, result, seen1)

\* the commits to visit, children before their parents
OrderChildrenFirst(cs, pm, to_visit_seq, new_parents_map) ==
    [panic |-> FALSE, order |-> Reverse(to_visit_seq)]

\* the commits in the order they are to be popped from the end
OrderCommitsForRebase(cs, pm, to_visit_seq, new_parents_map) ==
    LET walk == TopoOrderLoop(cs, pm, new_parents_map, SeqToSet(to_visit_seq),
                    [i \in 1..Len(to_visit_seq) |-> <<to_visit_seq[i], FALSE>>],
                    {}, {}, <<>>, {})
    IN [panic |-> walk.panic, order |-> Reverse(walk.order)]

\* ------------------------------------------------------- CommitRewriter
ParentsChanged(cs, old_commit, new_parents) == cs[old_commit].parents # new_parents

RewriterAbandon(r, old_commit, new_parents) ==
    RecordAbandonedCommitWithParentsOp(r, old_commit, new_parents)

\* reparent().write(): the same tree on the new parents
RewriterReparent(r, old_commit, new_parents) ==
    WriteCommit(r, [r.commits[old_commit] EXCEPT !.parents = new_parents], old_commit)

\* rebase().write(): the old tree merged onto the new parents' tree, against
\* the old parents' tree
RewriterRebase(r, old_commit, new_parents) ==
    LET old_base_tree == MergeCommitTrees(r.commits, r.commits[old_commit].parents)
        new_base_tree == MergeCommitTrees(r.commits, new_parents)
        new_tree == IF new_base_tree = old_base_tree
                    THEN r.commits[old_commit].tree
                    ELSE MergeTrees(new_base_tree, old_base_tree,
                                    r.commits[old_commit].tree)
    IN WriteCommit(r, [r.commits[old_commit] EXCEPT !.parents = new_parents,
                                                    !.tree = new_tree],
                   old_commit)

\* ------------------------------------------------------- the state machine
EmptyMap == <<>>

Repo ==
    [RepoRecord(commits, head_ids, dirty, wc_commit_ids, local_bookmarks,
                parent_mapping, panicked)
        EXCEPT !.commit_predecessors = commit_predecessors, !.refs = refs]

SetRepo(r) ==
    /\ commits' = r.commits
    /\ head_ids' = r.head_ids
    /\ dirty' = r.dirty
    /\ wc_commit_ids' = r.wc_commit_ids
    /\ local_bookmarks' = r.local_bookmarks
    /\ parent_mapping' = r.parent_mapping
    /\ commit_predecessors' = r.commit_predecessors
    /\ refs' = r.refs
    /\ panicked' = r.panicked

\* no call yet: the record of a call keeps its arguments and the ledger,
\* heads, working copies and bookmarks it started from
NoCall == [op |-> "none", mode |-> "none", delete_abandoned_bookmarks |-> FALSE,
           clear |-> FALSE, to_abandon |-> {}, roots |-> {}, pm0 |-> <<>>,
           heads0 |-> {}, wc0 |-> <<>>, bm0 |-> <<>>, ncommits0 |-> 0,
           new_parents_map |-> <<>>, to_restore |-> {}]

\* num_reparented and num_rebased before the first call of should_restore
NoCounts == [reparented |-> 0, rebased |-> 0]

\* The cell as with_clean leaves it: the value has not been taken out by a
\* validator, the dirty slot has no
\* shared borrow, and no call on the cell is in progress.
NoBorrows == [taken |-> FALSE, borrow |-> 0, frames |-> <<>>]

\* The base repository: root <- A <- B <- C <- D, and the siblings E and F of
\* B. D is an empty commit without description, as check_out leaves one.
Commit(parents, tree, desc, change) ==
    [parents |-> parents, tree |-> tree, desc |-> desc, change |-> change]

BaseCommits ==
    << Commit(<<>>, {}, 0, 1),
       Commit(<<1>>, {1}, 2, 2),
       Commit(<<2>>, {1, 2}, 3, 3),
       Commit(<<3>>, {1, 2, 3}, 4, 4),
       Commit(<<4>>, {1, 2, 3}, 0, 5),
       Commit(<<2>>, {1, 4}, 6, 6),
       Commit(<<2>>, {1, 5}, 7, 7) >>

\* the arguments the calls are made with
RewriteSources == {1, 3, 4, 5}
RewriteTargets == {4, 6}
DivergentTargets == {<<6, 7>>}
AbandonParents == {<<6, 7>>}
AddedHeads == {1, 3}
RemovedHeads == {5, 6}
EditedWorkspaces == {"w1"}
SetWcTargets == {1, 4}
EditTargets == {1, 3, 6}
CheckOutTargets == {3}
BookmarkTargets == {Absent, Normal(5)}
TransformRoots == {4}
AbandonSets == {{3}, {4}, {5}, {3, 4}}

\* no merge_operations call is in progress
NoTx == [operations |-> <<>>, parent_ops |-> <<>>, args |-> <<>>,
         default_index |-> TRUE, publish |-> FALSE, active |-> FALSE]

\* One MutableRepo of one transaction; the loader has nothing to reconcile.
Init ==
    /\ op_store = <<>> /\ op_heads = {} /\ tx = NoTx
    /\ commits = BaseCommits
    /\ head_ids = IndexHeads(BaseCommits, CommitIds(BaseCommits))
    /\ dirty = FALSE
    /\ \/ wc_commit_ids = [w1 |-> 5, w2 |-> NoId] /\ local_bookmarks = [bk |-> Normal(3)]
       \/ wc_commit_ids = [w1 |-> 3, w2 |-> 3] /\ local_bookmarks = [bk |-> Normal(4)]
    /\ parent_mapping = EmptyMap
    /\ commit_predecessors = EmptyMap
    /\ refs = BaseRefs
    /\ panicked = FALSE
    /\ pc = "idle"
    /\ to_visit = <<>>
    /\ call = NoCall
    /\ visited = <<>>
    /\ progress = <<>>
    /\ num = NoCounts
    /\ last = [op |-> "new", ok |-> TRUE]
    /\ nops = 0
    /\ ncalls = 0
    /\ cell = NoBorrows
    /\ attrs = <<>>

Idle == pc = "idle" /\ ~panicked

\* a ledger or view call; it returns at once
Returns(op, r) ==
    /\ Idle
    /\ nops < MaxOps
    /\ SetRepo(r)
    /\ last' = [op |-> op, ok |-> r.ok]
    /\ nops' = nops + 1
    /\ UNCHANGED <<pc, to_visit, call, visited, progress, num, ncalls, cell, attrs>>
    /\ UNCHANGED loader_vars

SetRewrittenCommit ==
    \E old_id \in RewriteSources, new_id \in RewriteTargets :
        Returns("set_rewritten_commit", SetRewrittenCommitOp(Repo, old_id, new_id))

SetDivergentRewrite ==
    \E old_id \in RewriteSources, new_ids \in DivergentTargets :
        Returns("set_divergent_rewrite", SetDivergentRewriteOp(Repo, old_id, new_ids))

RecordAbandonedCommit ==
    \E old_id \in RewriteSources :
        Returns("record_abandoned_commit", RecordAbandonedCommitOp(Repo, old_id))

RecordAbandonedCommitWithParents ==
    \E old_id \in RewriteSources, new_parent_ids \in AbandonParents :
        Returns("record_abandoned_commit_with_parents",
                RecordAbandonedCommitWithParentsOp(Repo, old_id, new_parent_ids))

AddHeadCall ==
    \E head \in AddedHeads : Returns("add_head", AddHead(Repo, head))

RemoveHead ==
    \E head \in RemovedHeads : Returns("remove_head", RemoveHeadOp(Repo, head))

SetWcCommit ==
    \E name \in EditedWorkspaces, commit_id \in SetWcTargets :
        Returns("set_wc_commit", SetWcCommitOp(Repo, name, commit_id))

RemoveWcCommit ==
    \E name \in EditedWorkspaces :
        Returns("remove_wc_commit", RemoveWcCommitOp(Repo, name))

Edit ==
    \E name \in EditedWorkspaces, commit_id \in EditTargets :
        Returns("edit", EditOp(Repo, name, commit_id))

CheckOut ==
    \E name \in EditedWorkspaces, commit_id \in CheckOutTargets :
        /\ Len(commits) < MaxCommits
        /\ Returns("check_out", CheckOutOp(Repo, name, commit_id))

SetLocalBookmarkTarget ==
    \E name \in BookmarkNames, target \in BookmarkTargets :
        Returns("set_local_bookmark_target",
                SetLocalBookmarkTargetOp(Repo, name, target))

\* transform_descendants_with_options up to the loop of transform_commits:
\* the commits to visit are found and ordered
StartTransformCall(r0, op, mode, roots, delete_abandoned_bookmarks, clear, to_abandon, new_parents_map, to_restore) ==
    LET r == EnsureClean(r0)
        found == FindDescendantsForRebase(r, roots)
        ordered == OrderCommitsForRebase(r.commits, r.parent_mapping, found,
                                         new_parents_map)
    IN /\ Idle
       /\ ncalls < MaxCalls
       /\ Len(r.commits) + Len(found) + Len(Workspaces) <= MaxCommits
       /\ ncalls' = ncalls + 1
       /\ UNCHANGED <<cell, attrs>>
       /\ visited' = <<>>
       /\ progress' = <<>>
       /\ num' = NoCounts
       /\ call' = [op |-> op, mode |-> mode,
                   delete_abandoned_bookmarks |-> delete_abandoned_bookmarks,
                   clear |-> clear, to_abandon |-> to_abandon, roots |-> roots,
                   pm0 |-> r.parent_mapping, heads0 |-> r.head_ids,
                   wc0 |-> r.wc_commit_ids, bm0 |-> r.local_bookmarks,
                   ncommits0 |-> Len(r.commits),
                   new_parents_map |-> new_parents_map,
                   to_restore |-> to_restore]
       /\ UNCHANGED nops
       /\ UNCHANGED loader_vars
       /\ IF ordered.panic
          THEN /\ SetRepo(Panic(r))
               /\ last' = [op |-> op, ok |-> FALSE]
               /\ UNCHANGED <<pc, to_visit>>
          ELSE /\ SetRepo(r)
               /\ pc' = "transform"
               /\ to_visit' = ordered.order
               /\ UNCHANGED last

\* a call whose callback restores no snapshot
StartTransformWith(r0, op, mode, roots, delete_abandoned_bookmarks, clear, to_abandon, new_parents_map) ==
    StartTransformCall(r0, op, mode, roots, delete_abandoned_bookmarks, clear,
                       to_abandon, new_parents_map, {})

\* transform_descendants: no parents are overridden
StartTransformFrom(r0, op, mode, roots, delete_abandoned_bookmarks, clear, to_abandon) ==
    StartTransformWith(r0, op, mode, roots, delete_abandoned_bookmarks, clear,
                       to_abandon, EmptyMap)

\* the call made on the repository as it stands
StartTransform(op, mode, roots, delete_abandoned_bookmarks, clear, to_abandon) ==
    StartTransformFrom(Repo, op, mode, roots, delete_abandoned_bookmarks, clear,
                       to_abandon)

RebaseDescendants ==
    StartTransform("rebase_descendants", "rebase", DOMAIN parent_mapping,
                   FALSE, TRUE, {})

ReparentDescendants ==
    StartTransform("reparent_descendants", "reparent", DOMAIN parent_mapping,
                   FALSE, TRUE, {})

\* a transform_descendants that clears the ledger when it ends
TransformDescendantsClearing ==
    \E root \in TransformRoots :
        /\ ncalls = 0
        /\ StartTransform("transform_descendants", "generic", {root}, FALSE, TRUE, {})

TransformDescendants ==
    \E root \in TransformRoots :
        /\ ncalls = 0
        /\ StartTransform("transform_descendants", "generic", {root}, FALSE, FALSE, {})

\* jj abandon: a new transaction and its transform_descendants_with_options
CmdAbandon ==
    \E to_abandon \in AbandonSets,
       retain_bookmarks \in BOOLEAN, restore_descendants \in BOOLEAN :
        /\ nops = 0 /\ ncalls = 0
        /\ StartTransform("abandon",
                          IF restore_descendants THEN "abandon_restore" ELSE "abandon",
                          to_abandon, ~retain_bookmarks, FALSE, to_abandon)

\* one turn of the loop of transform_commits: the callback applied to the
\* commit popped from to_visit
Visit(Callback(_, _, _)) ==
    LET old_commit == to_visit[Len(to_visit)]
        new_parent_ids == NewParents(parent_mapping,
                                     ParentIdsFor(commits, call.new_parents_map,
                                                  old_commit))
    IN /\ pc = "transform" /\ ~panicked
       /\ to_visit # <<>>
       /\ to_visit' = SubSeq(to_visit, 1, Len(to_visit) - 1)
       /\ visited' = Append(visited, old_commit)
       /\ UNCHANGED <<call, nops, ncalls, cell, attrs>>
       /\ UNCHANGED loader_vars
       /\ IF new_parent_ids.panic
          THEN /\ SetRepo(Panic(Repo))
               /\ pc' = "idle"
               /\ last' = [op |-> call.op, ok |-> FALSE]
               /\ UNCHANGED <<progress, num>>
          ELSE /\ Callback(Repo, old_commit, new_parent_ids.ids)
               /\ UNCHANGED <<pc, last>>

\* should_restore(commit_id) as the caller of
\* rebase_or_reparent_descendants passes it: always true from
\* reparent_descendants, never from rebase_descendants, and for jj diffedit
\* and jj restore true for the commits whose snapshot is to be restored
ShouldRestoreCommit(commit_id) ==
    \/ call.mode = "reparent"
    \/ call.mode = "restore" /\ commit_id \in call.to_restore

\* the counter that closure increments before it answers
Counted(n, commit_id) ==
    IF ShouldRestoreCommit(commit_id)
    THEN [n EXCEPT !.reparented = @ + 1]
    ELSE [n EXCEPT !.rebased = @ + 1]

\* a callback that reparents whatever the call asks for
ReparentingCallback(r, old_commit, new_parents) ==
    IF ParentsChanged(r.commits, old_commit, new_parents)
    THEN LET r1 == RewriterReparent(r, old_commit, new_parents)
         IN /\ SetRepo(r1)
            /\ progress' = Append(progress, <<old_commit, Len(r1.commits)>>)
            /\ num' = Counted(num, old_commit)
    ELSE SetRepo(r) /\ UNCHANGED <<progress, num>>

\* a callback that rebases whatever should_restore answers
AlwaysRebaseCallback(r, old_commit, new_parents) ==
    IF ParentsChanged(r.commits, old_commit, new_parents)
    THEN LET r1 == RewriterRebase(r, old_commit, new_parents)
         IN /\ SetRepo(r1)
            /\ progress' = Append(progress, <<old_commit, Len(r1.commits)>>)
            /\ num' = Counted(num, old_commit)
    ELSE SetRepo(r) /\ UNCHANGED <<progress, num>>

\* a callback that asks should_restore for every commit it is given
CountingCallback(r, old_commit, new_parents) ==
    /\ num' = Counted(num, old_commit)
    /\ IF ParentsChanged(r.commits, old_commit, new_parents)
       THEN LET r1 == IF ShouldRestoreCommit(old_commit)
                      THEN RewriterReparent(r, old_commit, new_parents)
                      ELSE RewriterRebase(r, old_commit, new_parents)
            IN /\ SetRepo(r1)
               /\ progress' = Append(progress, <<old_commit, Len(r1.commits)>>)
       ELSE SetRepo(r) /\ UNCHANGED progress

\* the callback of rebase_or_reparent_descendants_with_options
RebaseCallback(r, old_commit, new_parents) ==
    IF ParentsChanged(r.commits, old_commit, new_parents)
    THEN LET r1 == IF ShouldRestoreCommit(old_commit)
                   THEN RewriterReparent(r, old_commit, new_parents)
                   ELSE RewriterRebase(r, old_commit, new_parents)
         IN /\ SetRepo(r1)
            /\ progress' = Append(progress, <<old_commit, Len(r1.commits)>>)
            /\ num' = Counted(num, old_commit)
    ELSE SetRepo(r) /\ UNCHANGED <<progress, num>>

\* the callback of cmd_abandon
AbandonCallback(r, old_commit, new_parents) ==
    /\ UNCHANGED <<progress, num>>
    /\ IF old_commit \in call.to_abandon
       THEN SetRepo(RewriterAbandon(r, old_commit, new_parents))
       ELSE IF call.mode = "abandon_restore"
       THEN SetRepo(RewriterReparent(r, old_commit, new_parents))
       ELSE SetRepo(RewriterRebase(r, old_commit, new_parents))

\* a callback of transform_descendants that abandons, rewrites or leaves
GenericCallback(r, old_commit, new_parents) ==
    /\ UNCHANGED <<progress, num>>
    /\ \E choice \in {"abandon", "rebase", "leave"} :
          SetRepo(CASE choice = "abandon" -> RewriterAbandon(r, old_commit, new_parents)
                    [] choice = "rebase" -> RewriterRebase(r, old_commit, new_parents)
                    [] OTHER -> r)

VisitRebase == call.mode \in {"rebase", "reparent", "restore"} /\ Visit(RebaseCallback)

VisitAbandon == call.mode \in {"abandon", "abandon_restore"} /\ Visit(AbandonCallback)

VisitGeneric == call.mode = "generic" /\ Visit(GenericCallback)

\* a rebase that returns with the ledger it ended with
KeepParentMapping(r) == r

\* parent_mapping.clear()
ClearParentMapping(r) == [r EXCEPT !.parent_mapping = EmptyMap]

\* the end of transform_commits and, for the rebase family, the clearing of
\* parent_mapping; cmd_abandon finishes its transaction there
FinishTransform ==
    LET r == UpdateRewrittenReferences(Repo, call.delete_abandoned_bookmarks)
    IN /\ pc = "transform" /\ ~panicked
       /\ to_visit = <<>>
       /\ pc' = IF call.op = "abandon" THEN "finished" ELSE "idle"
       /\ last' = [op |-> call.op, ok |-> ~r.panicked]
       /\ SetRepo(IF ~r.panicked /\ call.clear
                  THEN ClearParentMapping(r)
                  ELSE r)
       /\ UNCHANGED <<to_visit, call, visited, progress, num, nops, ncalls, cell, attrs>>
       /\ UNCHANGED loader_vars

Next ==
    \/ SetRewrittenCommit
    \/ SetDivergentRewrite
    \/ RecordAbandonedCommit
    \/ RecordAbandonedCommitWithParents
    \/ AddHeadCall
    \/ RemoveHead
    \/ SetWcCommit
    \/ RemoveWcCommit
    \/ Edit
    \/ CheckOut
    \/ SetLocalBookmarkTarget
    \/ RebaseDescendants
    \/ ReparentDescendants
    \/ TransformDescendants
    \/ CmdAbandon
    \/ VisitRebase
    \/ VisitAbandon
    \/ VisitGeneric
    \/ FinishTransform

Spec == Init /\ [][Next]_vars

\* ------------------------------------------------------- predecessors
\* the transaction as the commit builder and Transaction::finish drive it:
\* predecessors recorded, commits rewritten and checked out, descendants
\* rebased or transformed, and the repository consumed at the end
PredecessorIds == {6, 7}
PredecessorLists == {<<3>>, <<3, 4>>}

SetPredecessors ==
    \E id \in PredecessorIds, predecessors \in PredecessorLists :
        /\ Returns("set_predecessors", SetPredecessorsOp(Repo, id, predecessors))

\* consume(): the view is validated and handed out with the predecessors;
\* the MutableRepo is gone
Consume ==
    LET r == EnsureClean(Repo)
    IN /\ Idle
       /\ SetRepo(r)
       /\ pc' = "consumed"
       /\ last' = [op |-> "consume", ok |-> TRUE,
                   value |-> [view |-> ViewOf(r),
                              commit_predecessors |-> r.commit_predecessors]]
       /\ UNCHANGED <<to_visit, call, visited, progress, num, nops, ncalls, cell, attrs>>
       /\ UNCHANGED loader_vars

PredecessorsNext ==
    \/ SetPredecessors
    \/ SetRewrittenCommit
    \/ RecordAbandonedCommit
    \/ CheckOut
    \/ RebaseDescendants
    \/ TransformDescendants
    \/ VisitRebase
    \/ VisitGeneric
    \/ FinishTransform
    \/ Consume

PredecessorsSpec == Init /\ [][PredecessorsNext]_vars

\* ------------------------------------------------------- the ledger calls
\* a transaction that records rewrites, some of them for a commit that has an
\* entry already, and rebases the descendants
LedgerNext ==
    \/ SetRewrittenCommit
    \/ SetDivergentRewrite
    \/ RecordAbandonedCommit
    \/ RecordAbandonedCommitWithParents
    \/ RebaseDescendants
    \/ ReparentDescendants
    \/ VisitRebase
    \/ FinishTransform

LedgerSpec == Init /\ [][LedgerNext]_vars

\* ------------------------------------------------------- working copies
\* the workspace w1 leaves its working-copy commit D, an empty head, which in
\* one of the two repositories is the working-copy commit of w2 as well
WcInit ==
    /\ op_store = <<>> /\ op_heads = {} /\ tx = NoTx
    /\ commits = BaseCommits
    /\ head_ids = IndexHeads(BaseCommits, CommitIds(BaseCommits))
    /\ dirty = FALSE
    /\ wc_commit_ids \in {[w1 |-> 5, w2 |-> NoId], [w1 |-> 5, w2 |-> 5]}
    /\ local_bookmarks = [bk |-> Normal(3)]
    /\ parent_mapping = EmptyMap
    /\ commit_predecessors = EmptyMap
    /\ refs = BaseRefs
    /\ panicked = FALSE
    /\ pc = "idle"
    /\ to_visit = <<>>
    /\ call = NoCall
    /\ visited = <<>>
    /\ progress = <<>>
    /\ num = NoCounts
    /\ last = [op |-> "new", ok |-> TRUE]
    /\ nops = 0
    /\ ncalls = 0
    /\ cell = NoBorrows
    /\ attrs = <<>>

WcNext ==
    \/ Edit
    \/ CheckOut
    \/ RemoveWcCommit
    \/ SetWcCommit
    \/ AddHeadCall
    \/ RemoveHead
    \/ SetLocalBookmarkTarget
    \/ SetRewrittenCommit

WcSpec == WcInit /\ [][WcNext]_vars

\* ------------------------------------------------------- new_parents
\* new_parents as a function of the ledger and of the parents asked for: the
\* ledgers are the maps from some of B, C, D to an entry, cyclic ones among
\* them; an entry holds at least one id, as a commit has a parent
LedgerKeys == {3, 4, 5}
LedgerEntries ==
    {Rewritten(3), Rewritten(4), Rewritten(6), Abandoned(<<2>>), Abandoned(<<4, 6>>),
     Abandoned(<<6, 7>>), Divergent(<<6, 7>>)}
Ledgers == UNION {[keys -> LedgerEntries] : keys \in SUBSET LedgerKeys}
ParentLists == {<<3>>, <<5>>, <<3, 4>>, <<4, 3>>, <<5, 6>>, <<3, 4, 5>>, <<7, 5, 3>>}

NewParentsInit ==
    /\ op_store = <<>> /\ op_heads = {} /\ tx = NoTx
    /\ commits = BaseCommits
    /\ head_ids = IndexHeads(BaseCommits, CommitIds(BaseCommits))
    /\ dirty = FALSE
    /\ wc_commit_ids = [w1 |-> 5, w2 |-> NoId]
    /\ local_bookmarks = [bk |-> Normal(3)]
    /\ parent_mapping \in Ledgers
    /\ commit_predecessors = EmptyMap
    /\ refs = BaseRefs
    /\ panicked = FALSE
    /\ pc = "idle"
    /\ to_visit = <<>>
    /\ call = NoCall
    /\ visited = <<>>
    /\ progress = <<>>
    /\ num = NoCounts
    /\ last = [op |-> "new", ok |-> TRUE]
    /\ nops = 0
    /\ ncalls = 0
    /\ cell = NoBorrows
    /\ attrs = <<>>

\* new_parents(old_ids): the value returned, or the panic of an assertion
NewParentsCall ==
    \E old_ids \in ParentLists :
        LET new_ids == NewParents(parent_mapping, old_ids)
        IN /\ Idle
           /\ last' = [op |-> "new_parents", ok |-> ~new_ids.panic,
                       args |-> old_ids, value |-> new_ids.ids]
           /\ panicked' = new_ids.panic
           /\ UNCHANGED <<commits, head_ids, dirty, wc_commit_ids, local_bookmarks,
                          parent_mapping, commit_predecessors, refs, pc, to_visit, call,
                          visited, progress, num, nops, ncalls, cell, attrs>>
           /\ UNCHANGED loader_vars

\* the predicates the program resolves the ledger with: |_| true of
\* update_all_references, and the predicate of new_parents; and two that
\* pass one kind only
Predicates == {RewriteKinds, {"Rewritten", "Abandoned"}, {"Rewritten"}, {"Divergent"}}

\* resolve_rewrite_mapping_with(predicate): the map returned, or the panic
\* of the topological sort
ResolveRewriteMappingCall ==
    \E pred \in Predicates :
        LET resolved == ResolveRewriteMappingWith(parent_mapping, pred)
        IN /\ Idle
           /\ last' = [op |-> "resolve_rewrite_mapping_with", ok |-> ~resolved.panic,
                       args |-> pred, value |-> resolved.map]
           /\ panicked' = resolved.panic
           /\ UNCHANGED <<commits, head_ids, dirty, wc_commit_ids, local_bookmarks,
                          parent_mapping, commit_predecessors, refs, pc, to_visit, call,
                          visited, progress, num, nops, ncalls, cell, attrs>>
           /\ UNCHANGED loader_vars

NewParentsNext ==
    \/ NewParentsCall
    \/ ResolveRewriteMappingCall

NewParentsSpec == NewParentsInit /\ [][NewParentsNext]_vars

\* ------------------------------------------------------- merging views
\* a merge of the working-copy commit that keeps the self side on conflict
MergeWcCommitKeepingSelf(r, name, base_id, other_id) ==
    LET self_id == r.wc_commit_ids[name]
        resolved == TrivialMerge3(self_id, base_id, other_id)
    IN [r EXCEPT !.wc_commit_ids[name] =
           IF resolved.some THEN resolved.value ELSE self_id]

\* merge_wc_commit: a trivial merge of the three ids; otherwise the workspace
\* is removed when either side removed it, and the self side is kept
MergeWcCommit(r, name, base_id, other_id) ==
    LET self_id == r.wc_commit_ids[name]
        resolved == TrivialMerge3(self_id, base_id, other_id)
        new_id == IF resolved.some THEN resolved.value
                  ELSE IF self_id = NoId \/ other_id = NoId THEN NoId
                  ELSE self_id
    IN [r EXCEPT !.wc_commit_ids[name] = new_id]

RECURSIVE MergeWcCommits(_, _, _, _)
\* merge_view: the workspaces whose commit differs between base and other
MergeWcCommits(r, names, base, other) ==
    IF names = <<>> THEN r
    ELSE LET name == Head(names)
             r1 == IF base.wc_commit_ids[name] # other.wc_commit_ids[name]
                   THEN MergeWcCommit(r, name, base.wc_commit_ids[name],
                                      other.wc_commit_ids[name])
                   ELSE r
         IN MergeWcCommits(r1, Tail(names), base, other)

\* revset::walk_revs(repo, wanted, unwanted): the ancestors of wanted that
\* are no ancestors of unwanted, the newest first
WalkRevs(cs, wanted, unwanted) ==
    Descending(AncestorsOf(cs, wanted) \ AncestorsOf(cs, unwanted))

\* rewritten_commits[old_commit]: the added commits with its change id
NewCommitsOf(cs, added, old_commit) ==
    SelectSeq(added, LAMBDA c : cs[c].change = cs[old_commit].change)

RECURSIVE RecordRewritesLoop(_, _, _)
\* the two loops of record_rewrites: a removed commit whose change id came
\* back is recorded as rewritten (one new commit) or divergent (several),
\* one whose change id is gone as abandoned; the keys differ, so the order of
\* the hash maps does not show
RecordRewritesLoop(r, removed, added) ==
    IF removed = <<>> \/ r.panicked THEN r
    ELSE LET old_commit == Head(removed)
             new_commits == NewCommitsOf(r.commits, added, old_commit)
             r1 == IF new_commits = <<>>
                   THEN RecordAbandonedCommitOp(r, old_commit)
                   ELSE IF Len(new_commits) = 1
                   THEN SetRewrittenCommitOp(r, old_commit, new_commits[1])
                   ELSE SetDivergentRewriteOp(r, old_commit, new_commits)
         IN RecordRewritesLoop(r1, Tail(removed), added)

\* a record_rewrites that adds the new commits to an entry it finds
RecordRewritesJoining(r, old_heads, new_heads) ==
    LET removed == WalkRevs(r.commits, old_heads, new_heads)
        added == WalkRevs(r.commits, new_heads, old_heads)
        Joined(old) ==
            LET found == IF old \in DOMAIN r.parent_mapping
                            /\ r.parent_mapping[old].kind # "Abandoned"
                         THEN r.parent_mapping[old].ids ELSE <<>>
            IN Unique(found \o NewCommitsOf(r.commits, added, old))
        olds == {removed[i] : i \in 1..Len(removed)}
    IN [r EXCEPT !.parent_mapping =
           [k \in DOMAIN @ \cup olds |->
               IF k \notin olds THEN @[k]
               ELSE IF Joined(k) = <<>> THEN Abandoned(r.commits[k].parents)
               ELSE IF Len(Joined(k)) = 1 THEN Rewritten(Joined(k)[1])
               ELSE Divergent(Joined(k))]]

\* record_rewrites(old_heads, new_heads)
RecordRewrites(r, old_heads, new_heads) ==
    RecordRewritesLoop(r, WalkRevs(r.commits, old_heads, new_heads),
                       WalkRevs(r.commits, new_heads, old_heads))

\* a merge of the first bookmark alone
MergeFirstLocalBookmark(r, names, base, other) ==
    IF names = <<>> THEN r
    ELSE IF base.local_bookmarks[Head(names)] # other.local_bookmarks[Head(names)]
    THEN MergeLocalBookmark(r, Head(names), base.local_bookmarks[Head(names)],
                            other.local_bookmarks[Head(names)])
    ELSE r

RECURSIVE MergeLocalBookmarks(_, _, _, _)
\* merge_view: the bookmarks whose target differs between base and other
MergeLocalBookmarks(r, names, base, other) ==
    IF names = <<>> THEN r
    ELSE LET name == Head(names)
             r1 == IF base.local_bookmarks[name] # other.local_bookmarks[name]
                   THEN MergeLocalBookmark(r, name, base.local_bookmarks[name],
                                           other.local_bookmarks[name])
                   ELSE r
         IN MergeLocalBookmarks(r1, Tail(names), base, other)

\* merge_view(base, other); tags, git refs and remote bookmarks are not held
MergeView(r, base, other, default_index) ==
    LET r1 == MergeWcCommits(r, Workspaces, base, other)
        r2 == EnsureClean(r1)
        own_heads == r2.head_ids
        r3 == IF default_index
              THEN RecordRewrites(RecordRewrites(r2, base.head_ids, own_heads),
                                  base.head_ids, other.head_ids)
              ELSE [r2 EXCEPT !.head_ids = @ \ (base.head_ids \ other.head_ids)]
        r4 == [r3 EXCEPT !.head_ids = @ \cup (other.head_ids \ base.head_ids)]
    IN IF r3.panicked THEN r3
       ELSE MergeLocalBookmarks(r4, BookmarksOf(base.local_bookmarks), base, other)

\* MutableRepo::merge(base_repo, other_repo); the index is the commit store
Merge(r, base, other, default_index) ==
    [MergeView(EnsureClean(r), base, other, default_index) EXCEPT !.dirty = TRUE]

\* ------------------------------------------------------- merge of views
\* merge(base_repo, other_repo) as a function of the three views: the views
\* differ in the working-copy commit of w1 and in the bookmarks bk and dev,
\* over the commits and heads of the base repository
MergedWcCommits == {NoId, 3, 4}
MergedTargets == {Absent, Normal(3), Normal(4)}

MergedViews ==
    {[head_ids |-> IndexHeads(BaseCommits, CommitIds(BaseCommits)),
      wc_commit_ids |-> [w1 |-> wc, w2 |-> 5],
      local_bookmarks |-> [bk |-> t1, dev |-> t2]] :
        wc \in MergedWcCommits, t1 \in MergedTargets, t2 \in MergedTargets}

MergeViewInit ==
    /\ op_store = <<>> /\ op_heads = {} /\ tx = NoTx
    /\ commits = BaseCommits
    /\ dirty = FALSE
    /\ \E view \in MergedViews :
          /\ head_ids = view.head_ids
          /\ wc_commit_ids = view.wc_commit_ids
          /\ local_bookmarks = view.local_bookmarks
    /\ parent_mapping = EmptyMap
    /\ commit_predecessors = EmptyMap
    /\ refs = BaseRefs
    /\ panicked = FALSE
    /\ pc = "idle"
    /\ to_visit = <<>>
    /\ call = NoCall
    /\ visited = <<>>
    /\ progress = <<>>
    /\ num = NoCounts
    /\ last = [op |-> "new", ok |-> TRUE]
    /\ nops = 0
    /\ ncalls = 0
    /\ cell = NoBorrows
    /\ attrs = <<>>

\* merge(base_repo, other_repo), called once on the repository
MergeCall ==
    /\ Idle
    /\ last.op = "new"
    /\ \E base \in MergedViews, other \in MergedViews, default_index \in BOOLEAN :
          \E r \in {Merge(Repo, base, other, default_index)} :
             /\ SetRepo(r)
             /\ last' = [op |-> "merge", ok |-> ~r.panicked,
                         args |-> [self |-> ViewOf(Repo), base |-> base, other |-> other]]
    /\ UNCHANGED <<pc, to_visit, call, visited, progress, num, nops, ncalls, cell, attrs>>
    /\ UNCHANGED loader_vars

MergeViewNext == MergeCall

MergeViewSpec == MergeViewInit /\ [][MergeViewNext]_vars

\* ------------------------------------------------------- counted rebases
\* jj diffedit (jj restore ends the same way): the target rewritten with the
\* edited tree, then rebase_or_reparent_descendants with a should_restore
\* that counts
DiffeditTargets == {3, 4}
EditedTrees == {{1, 2, 8}}
RestoreSnapshots == {{}, {5}}

\* --restore-descendants answers true for every commit, as a to_restore of
\* every commit does
CmdDiffedit ==
    /\ nops = 0 /\ ncalls = 0
    /\ \E target \in DiffeditTargets, tree_id \in EditedTrees,
          restore_descendants \in BOOLEAN, to_restore \in RestoreSnapshots :
          /\ tree_id # commits[target].tree
          /\ \E r1 \in {WriteCommit(Repo, [commits[target] EXCEPT !.tree = tree_id],
                                    target)} :
                StartTransformCall(r1, "diffedit", "restore",
                                   DOMAIN r1.parent_mapping, FALSE, TRUE, {}, EmptyMap,
                                   IF restore_descendants
                                   THEN CommitIds(r1.commits) ELSE to_restore)

CountNext ==
    \/ SetRewrittenCommit
    \/ SetDivergentRewrite
    \/ RecordAbandonedCommit
    \/ RebaseDescendants
    \/ ReparentDescendants
    \/ CmdDiffedit
    \/ VisitRebase
    \/ FinishTransform

CountSpec == Init /\ [][CountNext]_vars

\* ------------------------------------------------------- failing calls
\* `?` with the heads, bookmarks and working copies settled and, for the
\* rebase family, the ledger cleared on the way out
ReturnErrSettled(r) ==
    [ClearParentMapping(UpdateRewrittenReferences(r, FALSE)) EXCEPT !.ok = FALSE]

\* `?` on an Err of the callback or of a store read: the call returns it
ReturnErr(r) == [r EXCEPT !.ok = FALSE]

\* transform_commits returns the BackendError of a store read made while the
\* commits are found and ordered, or of the callback applied to the commit
\* popped from to_visit (the write of the rewritten commit fails before
\* anything is recorded)
TransformFails ==
    /\ pc = "transform" /\ ~panicked
    /\ \E r \in {ReturnErr(Repo)} :
          /\ SetRepo(r)
          /\ last' = [op |-> call.op, ok |-> r.ok]
    /\ pc' = "idle"
    /\ \/ /\ visited = <<>>
          /\ UNCHANGED <<to_visit, visited>>
       \/ /\ to_visit # <<>>
          /\ ~NewParents(parent_mapping,
                         ParentIdsFor(commits, call.new_parents_map,
                                      to_visit[Len(to_visit)])).panic
          /\ to_visit' = SubSeq(to_visit, 1, Len(to_visit) - 1)
          /\ visited' = Append(visited, to_visit[Len(to_visit)])
    /\ UNCHANGED <<call, progress, num, nops, ncalls, cell, attrs>>
    /\ UNCHANGED loader_vars

FailNext ==
    \/ SetRewrittenCommit
    \/ RecordAbandonedCommit
    \/ RebaseDescendants
    \/ ReparentDescendants
    \/ TransformDescendants
    \/ VisitRebase
    \/ VisitGeneric
    \/ TransformFails
    \/ FinishTransform

FailSpec == Init /\ [][FailNext]_vars

\* ------------------------------------------------------- gitattributes
\* GitAttributesFile: the pattern lists of the chained .gitattributes files
\* and the names of the filters to ignore. The search of gix is given by
\* what gitattributes documents: a line applies to the paths below the
\* directory of its file that its pattern matches, and for each attribute the
\* line added last decides. A path is a file: the directories it lies in and
\* the name and extension of the file; a pattern is *.ext.
MaxFiles == 3        \* GitAttributesFile values that may be made

\* gix_attrs::StateRef
AttrSet == [kind |-> "Set", value |-> ""]
AttrUnset == [kind |-> "Unset", value |-> ""]
AttrValue(value) == [kind |-> "Value", value |-> value]
AttrUnspecified == [kind |-> "Unspecified", value |-> ""]

Assign(name, state) == [name |-> name, state |-> state]
AttrLine(ext, assignments) == [ext |-> ext, assignments |-> assignments]
AttrPath(dir, name, ext) == [dir |-> dir, name |-> name, ext |-> ext]

\* the ignore_filters the files are made with
IgnoreFilters == {<<"lfs", "text">>, <<"binary", "git-crypt">>}

\* the attribute files of the installation, the system and the user: none, or
\* one that gives *.bin to lfs
GlobalAttributes ==
    {<<>>,
     <<[prefix |-> <<>>,
        lines |-> <<AttrLine("bin", <<Assign("filter", AttrValue("lfs"))>>)>>]>>}

\* the .gitattributes files chained, each under its directory
ChainInputs ==
    {[prefix |-> <<>>,
      lines |-> <<AttrLine("bin", <<Assign("filter", AttrValue("lfs"))>>)>>],
     [prefix |-> <<>>,
      lines |-> <<AttrLine("bin", <<Assign("filter", AttrValue("other"))>>)>>],
     [prefix |-> <<>>,
      lines |-> <<AttrLine("bin", <<Assign("filter", AttrValue("lfs")),
                                    Assign("diff", AttrValue("binary"))>>)>>],
     [prefix |-> <<>>,
      lines |-> <<AttrLine("bin", <<Assign("diff", AttrValue("binary"))>>)>>],
     [prefix |-> <<"subdir">>,
      lines |-> <<AttrLine("txt", <<Assign("filter", AttrValue("text"))>>)>>],
     [prefix |-> <<"subdir">>,
      lines |-> <<AttrLine("bin", <<Assign("filter", AttrUnset)>>)>>],
     [prefix |-> <<>>,
      lines |-> <<AttrLine("bin", <<Assign("filter", AttrValue("lfs"))>>),
                  AttrLine("secret", <<Assign("filter", AttrValue("git-crypt"))>>),
                  AttrLine("bin", <<Assign("filter", AttrSet)>>)>>]}

\* the paths asked about
AttrPaths ==
    {AttrPath(<<>>, "file", "bin"), AttrPath(<<>>, "file", "txt"),
     AttrPath(<<"subdir">>, "file", "txt"), AttrPath(<<"subdir">>, "file", "bin"),
     AttrPath(<<>>, "credentials", "secret")}

\* GitAttributesFile::new: the attribute files of the environment, nothing
\* chained yet
NewAttributesFile(globals, ignore_filters) ==
    [search |-> globals, ignore_filters |-> ignore_filters]

\* GitAttributesFile::chain: a copy of the file with the patterns of one more
\* .gitattributes added; the file it is called on is borrowed, not changed
Chain(file, input) == [file EXCEPT !.search = Append(@, input)]

\* the file lies under the prefix, and *.ext matches its name
PatternMatches(list, line, path) ==
    /\ Len(list.prefix) <= Len(path.dir)
    /\ SubSeq(path.dir, 1, Len(list.prefix)) = list.prefix
    /\ line.ext = path.ext

\* the attributes of every name, where the selection is not kept to filter
SelectEverything == <<"filter", "diff">>

\* out.initialize_with_selection(&self.collection, ["filter"])
Selection == <<"filter">>

\* the assignments of the lines that match the path, those that decide
\* first: the list chained last before the others, and in a list the last
\* line before the others
MatchingAssignments(search, path) ==
    LET OfLine(list, line) ==
            IF PatternMatches(list, line, path) THEN line.assignments ELSE <<>>
        OfList(list) == FlatMap(LAMBDA line : OfLine(list, line), Reverse(list.lines))
    IN FlatMap(OfList, Reverse(search))

RECURSIVE FillOutcome(_, _, _)
\* pattern_matching_relative_path: an attribute of the selection takes the
\* first assignment met, and keeps it
FillOutcome(out, selected, assignments) ==
    IF assignments = <<>> THEN out
    ELSE LET a == Head(assignments)
         IN FillOutcome(IF Contains(selected, a.name) /\ a.name \notin DOMAIN out
                        THEN MapInsert(out, a.name, a.state)
                        ELSE out,
                        selected, Tail(assignments))

\* out.iter_selected(): the state of each attribute of the selection,
\* unspecified when no line assigns it
IterSelected(out, selected) ==
    [i \in 1..Len(selected) |->
        IF selected[i] \in DOMAIN out THEN out[selected[i]] ELSE AttrUnspecified]

\* GitAttributesFile::matches
Matches(file, path) ==
    LET out == FillOutcome(EmptyMap, Selection,
                           MatchingAssignments(file.search, path))
        states == IterSelected(out, Selection)
    IN \E i \in 1..Len(states) :
          /\ states[i].kind = "Value"
          /\ \E j \in 1..Len(file.ignore_filters) :
                states[i].value = file.ignore_filters[j]

AttributesFrame ==
    /\ UNCHANGED <<commits, head_ids, dirty, wc_commit_ids, local_bookmarks,
                   parent_mapping, commit_predecessors, refs, panicked, pc, to_visit, call,
                   visited, progress, num, nops, ncalls, cell>>
    /\ UNCHANGED loader_vars

\* GitAttributesFile::new
AttributesNew ==
    /\ attrs = <<>>
    /\ \E globals \in GlobalAttributes, ignore_filters \in IgnoreFilters :
          attrs' = <<NewAttributesFile(globals, ignore_filters)>>
    /\ last' = [op |-> "new", ok |-> TRUE]
    /\ AttributesFrame

\* chain, and chain_with_file of a file that exists
AttributesChain ==
    /\ attrs # <<>> /\ Len(attrs) < MaxFiles
    /\ \E i \in 1..Len(attrs), input \in ChainInputs :
          /\ attrs' = Append(attrs, Chain(attrs[i], input))
          /\ last' = [op |-> "chain", ok |-> TRUE, args |-> <<i>>]
    /\ AttributesFrame

\* chain_with_file of a file that does not exist: the Arc is cloned
AttributesChainWithoutFile ==
    /\ attrs # <<>> /\ Len(attrs) < MaxFiles
    /\ \E i \in 1..Len(attrs) :
          /\ attrs' = Append(attrs, attrs[i])
          /\ last' = [op |-> "chain_with_file", ok |-> TRUE, args |-> <<i>>]
    /\ AttributesFrame

\* matches(path) on one of the files
AttributesMatches ==
    /\ attrs # <<>>
    /\ \E i \in 1..Len(attrs), path \in AttrPaths :
          last' = [op |-> "matches", ok |-> TRUE, args |-> <<i, path>>,
                   value |-> Matches(attrs[i], path)]
    /\ UNCHANGED attrs
    /\ AttributesFrame

AttributesNext ==
    \/ AttributesNew
    \/ AttributesChain
    \/ AttributesChainWithoutFile
    \/ AttributesMatches

\* no GitAttributesFile yet, in the repository of one workspace
AttributesInit == Init /\ wc_commit_ids["w2"] = NoId

AttributesSpec == AttributesInit /\ [][AttributesNext]_vars

\* ------------------------------------------------------- other refs
\* the setters of the refs that are no local bookmarks: each writes its field
\* of the view through view_mut()
OtherRefTargets == {Absent, Normal(3), Normal(5)}

SetTagTargetOp(r, name, target) == [r EXCEPT !.refs.tags[name] = target]

SetGitRefTargetOp(r, name, target) == [r EXCEPT !.refs.git_refs[name] = target]

SetRemoteBookmarkOp(r, symbol, remote_ref) ==
    [r EXCEPT !.refs.remote_bookmarks[symbol] = remote_ref]

SetGitHeadTargetOp(r, target) == [r EXCEPT !.refs.git_head = target]

SetTagTarget ==
    \E target \in OtherRefTargets :
        Returns("set_tag_target", SetTagTargetOp(Repo, "v1", target))

SetGitRefTarget ==
    \E target \in OtherRefTargets :
        Returns("set_git_ref_target", SetGitRefTargetOp(Repo, "main", target))

SetRemoteBookmark ==
    \E target \in OtherRefTargets, state \in {"New", "Tracked"} :
        Returns("set_remote_bookmark",
                SetRemoteBookmarkOp(Repo, "origin", [target |-> target, state |-> state]))

SetGitHeadTarget ==
    \E target \in OtherRefTargets :
        Returns("set_git_head_target", SetGitHeadTargetOp(Repo, target))

RefsNext ==
    \/ SetTagTarget
    \/ SetGitRefTarget
    \/ SetRemoteBookmark
    \/ SetGitHeadTarget
    \/ SetRewrittenCommit
    \/ RecordAbandonedCommit
    \/ RebaseDescendants
    \/ TransformDescendants
    \/ VisitRebase
    \/ VisitGeneric
    \/ FinishTransform

RefsSpec == Init /\ [][RefsNext]_vars

\* ------------------------------------------------------- adding heads
\* add_head on the clean views of the base commits: every set of heads that
\* enforce_view_invariants leaves
CleanHeadSets ==
    {EnforceViewInvariants(BaseCommits, S) : S \in SUBSET CommitIds(BaseCommits) \ {{}}}

HeadsInit ==
    /\ op_store = <<>> /\ op_heads = {} /\ tx = NoTx
    /\ commits = BaseCommits
    /\ head_ids \in CleanHeadSets
    /\ dirty = FALSE
    /\ wc_commit_ids = [w1 |-> NoId, w2 |-> NoId]
    /\ local_bookmarks = [bk |-> Absent]
    /\ parent_mapping = EmptyMap
    /\ commit_predecessors = EmptyMap
    /\ refs = BaseRefs
    /\ panicked = FALSE
    /\ pc = "idle"
    /\ to_visit = <<>>
    /\ call = NoCall
    /\ visited = <<>>
    /\ progress = <<>>
    /\ num = NoCounts
    /\ last = [op |-> "new", ok |-> TRUE]
    /\ nops = 0
    /\ ncalls = 0
    /\ cell = NoBorrows
    /\ attrs = <<>>

\* add_head(head) for any commit of the store
AddHeadOf ==
    /\ Idle
    /\ nops < MaxOps
    /\ \E head \in CommitIds(commits) :
          /\ SetRepo(AddHead(Repo, head))
          /\ last' = [op |-> "add_head", ok |-> TRUE, args |-> head]
    /\ nops' = nops + 1
    /\ UNCHANGED <<pc, to_visit, call, visited, progress, num, ncalls, cell, attrs>>
    /\ UNCHANGED loader_vars

\* view(): the heads are normalised if the view is dirty
ViewCall ==
    /\ Idle
    /\ nops < MaxOps
    /\ SetRepo(EnsureClean(Repo))
    /\ last' = [op |-> "view", ok |-> TRUE]
    /\ nops' = nops + 1
    /\ UNCHANGED <<pc, to_visit, call, visited, progress, num, ncalls, cell, attrs>>
    /\ UNCHANGED loader_vars

HeadsNext ==
    \/ AddHeadOf
    \/ ViewCall

HeadsSpec == HeadsInit /\ [][HeadsNext]_vars

\* ------------------------------------------------------- the walk, turn by turn
\* rewritten_ids_with with its while loop taken one turn at a time: the
\* locals of the call (to_visit, visited, new_ids) are held in call, with
\* the ids expanded so far and the number of turns taken
MaxTurns == 12

\* the entries of the ledgers walked: record_abandoned_commit_with_parents
\* takes any list of parents, the empty one among them
WalkEntries ==
    {Rewritten(3), Rewritten(4), Rewritten(6), Abandoned(<<4, 6>>), Abandoned(<<>>),
     Divergent(<<6, 7>>)}
WalkLedgers == UNION {[keys -> WalkEntries] : keys \in SUBSET LedgerKeys}
WalkInputs == ParentLists \cup {<<>>}

\* |_| true of resolve_rewrite_mapping_with's check, and the predicate of
\* new_parents
WalkPredicates == {RewriteKinds, {"Rewritten", "Abandoned"}}

WalkInit ==
    /\ op_store = <<>> /\ op_heads = {} /\ tx = NoTx
    /\ commits = BaseCommits
    /\ head_ids = IndexHeads(BaseCommits, CommitIds(BaseCommits))
    /\ dirty = FALSE
    /\ wc_commit_ids = [w1 |-> 5, w2 |-> NoId]
    /\ local_bookmarks = [bk |-> Normal(3)]
    /\ parent_mapping \in WalkLedgers
    /\ commit_predecessors = EmptyMap
    /\ refs = BaseRefs
    /\ panicked = FALSE
    /\ pc = "idle"
    /\ to_visit = <<>>
    /\ call = NoCall
    /\ visited = <<>>
    /\ progress = <<>>
    /\ num = NoCounts
    /\ last = [op |-> "new", ok |-> TRUE]
    /\ nops = 0
    /\ ncalls = 0
    /\ cell = NoBorrows
    /\ attrs = <<>>

WalkFrame ==
    /\ UNCHANGED <<commits, head_ids, dirty, wc_commit_ids, local_bookmarks,
                   parent_mapping, commit_predecessors, refs, to_visit, visited,
                   progress, num, nops, ncalls, cell, attrs>>
    /\ UNCHANGED loader_vars

\* a visited set that records nothing
VisitedForget(seen, id) == seen

\* visited.insert(id)
VisitedInsert(seen, id) == seen \cup {id}

\* the entry of rewritten_ids_with: the assertion on old_ids, then the
\* locals as they are before the first turn
RewrittenIdsStart ==
    /\ Idle
    /\ last.op = "new"
    /\ \E old_ids \in WalkInputs, predicate \in WalkPredicates :
          /\ call' = [op |-> "rewritten_ids_with", old_ids |-> old_ids,
                      predicate |-> predicate, to_visit |-> Reverse(old_ids),
                      visited |-> {}, new_ids |-> <<>>, expanded |-> <<>>, turns |-> 0]
          /\ IF old_ids = <<>>
             THEN /\ panicked' = TRUE
                  /\ pc' = "idle"
                  /\ last' = [op |-> "rewritten_ids_with", ok |-> FALSE,
                              args |-> old_ids, value |-> <<>>]
             ELSE /\ pc' = "walk"
                  /\ UNCHANGED <<panicked, last>>
    /\ WalkFrame

\* one turn of the while loop: an id is popped; an id seen before is
\* skipped; an id whose entry passes the predicate is replaced by its new
\* parents, the last of them on top; any other id is pushed to new_ids
RewrittenIdsTurn ==
    /\ pc = "walk" /\ ~panicked
    /\ call.to_visit # <<>>
    /\ call.turns < MaxTurns
    /\ LET id == call.to_visit[Len(call.to_visit)]
           rest == SubSeq(call.to_visit, 1, Len(call.to_visit) - 1)
           seen == VisitedInsert(call.visited, id)
           popped == [call EXCEPT !.to_visit = rest, !.turns = @ + 1]
           expanding == [popped EXCEPT !.visited = seen, !.expanded = Append(@, id)]
       IN IF id \in call.visited
          THEN /\ call' = popped
               /\ UNCHANGED <<panicked, pc, last>>
          ELSE IF Passes(parent_mapping, id, call.predicate)
               THEN IF NewParentIds(parent_mapping[id]) = <<>>
                    THEN /\ call' = expanding
                         /\ panicked' = TRUE
                         /\ pc' = "idle"
                         /\ last' = [op |-> "rewritten_ids_with", ok |-> FALSE,
                                     args |-> call.old_ids, value |-> <<>>]
                    ELSE /\ call' = [expanding EXCEPT !.to_visit =
                                        rest \o Reverse(NewParentIds(parent_mapping[id]))]
                         /\ UNCHANGED <<panicked, pc, last>>
               ELSE /\ call' = [expanding EXCEPT !.new_ids = Append(@, id)]
                    /\ UNCHANGED <<panicked, pc, last>>
    /\ WalkFrame

\* the loop has ended: the assertion on new_ids, then the value returned
RewrittenIdsReturn ==
    /\ pc = "walk" /\ ~panicked
    /\ call.to_visit = <<>>
    /\ pc' = "idle"
    /\ panicked' = (call.new_ids = <<>>)
    /\ last' = [op |-> "rewritten_ids_with", ok |-> call.new_ids # <<>>,
                args |-> call.old_ids, value |-> call.new_ids]
    /\ UNCHANGED call
    /\ WalkFrame

WalkNext ==
    \/ RewrittenIdsStart
    \/ RewrittenIdsTurn
    \/ RewrittenIdsReturn

WalkSpec == WalkInit /\ [][WalkNext]_vars

\* a call that has been entered runs on: the loop takes its next turn, and
\* the function returns once the loop has ended
WalkLiveSpec == WalkSpec /\ WF_vars(RewrittenIdsTurn) /\ WF_vars(RewrittenIdsReturn)

\* ------------------------------------------------------- visiting order
\* transform_descendants_with_options on ledgers whose replacements are
\* themselves to be visited, and with parents overridden
OrderSources == {2, 3}
OrderTargets == {4, 6}
OrderRoots == {{3}, {3, 6}}
\* E put on D; C put on its own child D
NewParentsMaps == {EmptyMap, 6 :> <<5>>, 4 :> <<5>>}

RecordRewrite ==
    \E old_id \in OrderSources, new_id \in OrderTargets :
        Returns("set_rewritten_commit", SetRewrittenCommitOp(Repo, old_id, new_id))

TransformDescendantsWithOptions ==
    /\ ncalls = 0
    /\ \E roots \in OrderRoots, new_parents_map \in NewParentsMaps :
          StartTransformWith(Repo, "transform_descendants_with_options", "generic",
                             roots, FALSE, FALSE, {}, new_parents_map)

OrderNext ==
    \/ RecordRewrite
    \/ TransformDescendantsWithOptions
    \/ VisitGeneric
    \/ FinishTransform

OrderSpec == Init /\ [][OrderNext]_vars

\* ------------------------------------------------------- jj split
\* CommitRewriter::replace_parent: the old parent replaced in place by the
\* new ones, duplicates dropped
ReplaceParent(parents, old_parent, new_parents) ==
    IF old_parent \in SeqToSet(parents)
    THEN LET Replaced(p) == IF p = old_parent THEN new_parents ELSE <<p>>
         IN Unique(FlatMap(Replaced, parents))
    ELSE parents

\* the commits jj split is given, and the descriptions typed for the first
\* commit
SplitTargets == {4, 5}
SplitDescriptions == {0, 8}

\* what the diff selector may return: nothing selected or every change
SelectedTrees(cs, target) ==
    {MergeCommitTrees(cs, cs[target].parents), cs[target].tree}

\* A repository whose commit D may hold a change, checked out in one or two
\* workspaces, or C checked out; the bookmark is on B or on C.
SplitInit ==
    /\ op_store = <<>> /\ op_heads = {} /\ tx = NoTx
    /\ commits \in {BaseCommits, [BaseCommits EXCEPT ![5].tree = {1, 2, 3, 6}]}
    /\ head_ids = IndexHeads(BaseCommits, CommitIds(BaseCommits))
    /\ dirty = FALSE
    /\ wc_commit_ids \in {[w1 |-> 5, w2 |-> NoId], [w1 |-> 5, w2 |-> 5],
                          [w1 |-> 4, w2 |-> NoId], [w1 |-> 4, w2 |-> 5]}
    /\ local_bookmarks \in {[bk |-> Normal(3)], [bk |-> Normal(4)]}
    /\ parent_mapping = EmptyMap
    /\ commit_predecessors = EmptyMap
    /\ refs = BaseRefs
    /\ panicked = FALSE
    /\ pc = "idle"
    /\ to_visit = <<>>
    /\ call = NoCall
    /\ visited = <<>>
    /\ progress = <<>>
    /\ num = NoCounts
    /\ last = [op |-> "new", ok |-> TRUE]
    /\ nops = 0
    /\ ncalls = 0
    /\ cell = NoBorrows
    /\ attrs = <<>>

\* the second commit of a split: the target's tree and description on the
\* first commit, under a new change id
SplitSecondCommit(r, target, first_commit) ==
    [r.commits[target] EXCEPT !.parents = <<first_commit>>,
                              !.change = Len(r.commits) + 1]

\* cmd_split without --parallel and without move flags, up to the loop of
\* the transform_descendants of rewrite_descendants: both commits written,
\* the target recorded as rewritten into the second one when
\* split.legacy-bookmark-behavior is set
CmdSplit ==
    /\ Idle
    /\ nops = 0 /\ ncalls = 0
    /\ \E target \in SplitTargets, description \in SplitDescriptions,
          legacy_bookmark_behavior \in BOOLEAN :
        \E selected_tree \in SelectedTrees(commits, target) :
            LET r1 == WriteCommit(Repo, [commits[target] EXCEPT
                                             !.tree = selected_tree,
                                             !.desc = description],
                                  target)
                first_commit == Len(r1.commits)
                r2 == WriteCommit(r1, SplitSecondCommit(r1, target, first_commit),
                                  target)
                second_commit == Len(r2.commits)
                r3 == IF legacy_bookmark_behavior
                      THEN SetRewrittenCommitOp(r2, target, second_commit)
                      ELSE r2
            IN StartTransformFrom(r3, "split", "split", {target}, FALSE, FALSE, {})

\* the commits cmd_split wrote before the call in progress, and its target
SplitFirstCommit == call.ncommits0 - 1
SplitSecondCommitId == call.ncommits0
SplitTarget == CHOOSE target \in call.roots : TRUE

\* the callback of rewrite_descendants: the first commit among the new
\* parents replaced by the second, and the commit rebased
SplitCallback(r, old_commit, new_parents) ==
    /\ UNCHANGED <<progress, num>>
    /\ SetRepo(RewriterRebase(r, old_commit,
                              ReplaceParent(new_parents, SplitFirstCommit,
                                            <<SplitSecondCommitId>>)))

VisitSplit == call.mode = "split" /\ Visit(SplitCallback)

\* the end of rewrite_descendants: every workspace that was on the target
\* when the transaction started edits the second commit
RECURSIVE EditWorkspaces(_, _, _, _)
EditWorkspaces(r, names, target, second_commit) ==
    IF names = <<>> \/ ~r.ok \/ r.panicked THEN r
    ELSE EditWorkspaces(IF call.wc0[Head(names)] = target
                        THEN EditOp(r, Head(names), second_commit)
                        ELSE r,
                        Tail(names), target, second_commit)

SplitEditWorkspaces ==
    /\ Idle
    /\ last = [op |-> "split", ok |-> TRUE]
    /\ \E r \in {EditWorkspaces(Repo, Workspaces, SplitTarget, SplitSecondCommitId)} :
          /\ SetRepo(r)
          /\ last' = [op |-> "rewrite_descendants", ok |-> r.ok /\ ~r.panicked]
    /\ UNCHANGED <<pc, to_visit, call, visited, progress, num, nops, ncalls, cell, attrs>>
    /\ UNCHANGED loader_vars

\* tx.finish: the descendants of what the ledger still holds are rebased
SplitFinish ==
    /\ last = [op |-> "rewrite_descendants", ok |-> TRUE]
    /\ RebaseDescendants

SplitNext ==
    \/ CmdSplit
    \/ VisitSplit
    \/ SplitEditWorkspaces
    \/ SplitFinish
    \/ FinishTransform

SplitSpec == SplitInit /\ [][SplitNext]_vars

\* ------------------------------------------------------- the dirty cell
\* DirtyCell<View> under callbacks that call back into the cell. The value is
\* in the clean slot, in the dirty slot, or taken out by a validator that is
\* still running.
MaxFrames == 3       \* calls on the cell that may be in progress at once

\* the two slots, each holding the value or nothing
CleanIsSet == cell.clean
DirtyIsSet == cell.dirty

\* DirtyCell::with_clean; runs counts the validators started since the value
\* last went to the dirty slot
CleanCell == [clean |-> TRUE, dirty |-> FALSE, taken |-> FALSE, borrow |-> 0,
              frames |-> <<>>, runs |-> 0]

\* MutableRepo::new: the view of the base repo in a clean cell
CellInit ==
    /\ op_store = <<>> /\ op_heads = {} /\ tx = NoTx
    /\ commits = BaseCommits
    /\ head_ids = IndexHeads(BaseCommits, CommitIds(BaseCommits))
    /\ dirty = FALSE
    /\ wc_commit_ids = [w1 |-> 5, w2 |-> NoId] /\ local_bookmarks = [bk |-> Normal(3)]
    /\ parent_mapping = EmptyMap
    /\ commit_predecessors = EmptyMap
    /\ refs = BaseRefs
    /\ panicked = FALSE
    /\ pc = "idle"
    /\ to_visit = <<>>
    /\ call = NoCall
    /\ visited = <<>>
    /\ progress = <<>>
    /\ num = NoCounts
    /\ last = [op |-> "with_clean", ok |-> TRUE]
    /\ nops = 0
    /\ ncalls = 0
    /\ cell = CleanCell
    /\ attrs = <<>>

\* the head sets get_mut may leave in the view
CellHeadSets == {{3, 6, 7}, {4, 5, 6, 7}, {5, 6}}

\* a shared borrow that the RefCell does not count
NotBorrowed(c) == c

\* RefCell::borrow: one more shared borrow of the dirty slot
Borrowed(c) == [c EXCEPT !.borrow = @ + 1]

\* the frame of a call in progress; borrowed: it holds a Ref of the dirty slot
Frame(fn, borrowed) == [fn |-> fn, borrowed |-> borrowed]

CellFrame ==
    UNCHANGED <<commits, wc_commit_ids, local_bookmarks, parent_mapping,
                commit_predecessors, refs, pc, to_visit, call, visited, progress, num,
                nops, ncalls, attrs>>

\* a borrow or an unwrap of the call op has failed
CellPanics(op) ==
    /\ panicked' = TRUE
    /\ last' = [op |-> op, ok |-> FALSE]
    /\ UNCHANGED <<head_ids, dirty, cell>>

\* the call op has got as far as its callback, or has returned
CellCalled(op, c) ==
    /\ cell' = c
    /\ last' = [op |-> op, ok |-> TRUE]
    /\ UNCHANGED <<head_ids, dirty, panicked>>

\* with_ref up to the call of f: f gets the clean value, or the dirty one
\* under a shared borrow that lasts until f returns
WithRef ==
    /\ ~panicked
    /\ Len(cell.frames) < MaxFrames
    /\ IF CleanIsSet
       THEN CellCalled("with_ref",
                       [cell EXCEPT !.frames = Append(@, Frame("with_ref", FALSE))])
       ELSE IF ~DirtyIsSet
       THEN CellPanics("with_ref")
       ELSE CellCalled("with_ref",
                       [Borrowed(cell) EXCEPT
                            !.frames = Append(@, Frame("with_ref", TRUE))])
    /\ CellFrame
    /\ UNCHANGED loader_vars

\* get_or_ensure_clean and ensure_clean up to the call of the validator: a
\* clean cell returns its value at once; otherwise the dirty slot is borrowed
\* mutably for as long as the value is taken out of it
GetOrEnsureClean ==
    /\ ~panicked
    /\ Len(cell.frames) < MaxFrames
    /\ \E op \in {"ensure_clean", "get_or_ensure_clean"} :
          IF CleanIsSet
          THEN CellCalled(op, cell)
          ELSE IF cell.borrow # 0 \/ ~DirtyIsSet
          THEN CellPanics(op)
          ELSE CellCalled(op, [cell EXCEPT
                                   !.dirty = FALSE,
                                   !.taken = TRUE,
                                   !.runs = @ + 1,
                                   !.frames = Append(@, Frame("validator", FALSE))])
    /\ CellFrame
    /\ UNCHANGED loader_vars

\* the callback of the innermost call returns: with_ref drops its borrow,
\* get_or_init puts the validated value in the clean slot
CellReturn ==
    /\ ~panicked
    /\ cell.frames # <<>>
    /\ LET top == cell.frames[Len(cell.frames)]
           rest == SubSeq(cell.frames, 1, Len(cell.frames) - 1)
       IN IF top.fn = "validator"
          THEN /\ head_ids' = EnforceViewInvariants(commits, head_ids)
               /\ dirty' = FALSE
               /\ cell' = [cell EXCEPT !.clean = TRUE, !.taken = FALSE,
                                        !.frames = rest]
          ELSE /\ cell' = [cell EXCEPT
                               !.borrow = IF top.borrowed THEN @ - 1 ELSE @,
                               !.frames = rest]
               /\ UNCHANGED <<head_ids, dirty>>
    /\ last' = [op |-> "return", ok |-> TRUE]
    /\ UNCHANGED panicked
    /\ CellFrame
    /\ UNCHANGED loader_vars

\* get_mut, and what its caller writes through it
GetMut ==
    /\ ~panicked
    /\ cell.frames = <<>>
    /\ \E heads \in CellHeadSets : head_ids' = heads
    /\ last' = [op |-> "get_mut", ok |-> TRUE]
    /\ UNCHANGED <<dirty, cell, panicked>>
    /\ CellFrame
    /\ UNCHANGED loader_vars

\* a mark_dirty that fills the dirty slot and leaves the clean one as it is
MarkDirtyKeepingClean ==
    /\ ~panicked
    /\ cell.frames = <<>>
    /\ cell' = [cell EXCEPT !.dirty = TRUE, !.runs = 0]
    /\ dirty' = TRUE
    /\ last' = [op |-> "mark_dirty", ok |-> TRUE]
    /\ UNCHANGED <<head_ids, panicked>>
    /\ CellFrame
    /\ UNCHANGED loader_vars

\* mark_dirty: the value, if it is in the clean slot, moves to the dirty one
MarkDirty ==
    /\ ~panicked
    /\ cell.frames = <<>>
    /\ IF CleanIsSet
       THEN /\ cell' = [cell EXCEPT !.clean = FALSE, !.dirty = TRUE, !.runs = 0]
            /\ dirty' = TRUE
       ELSE UNCHANGED <<cell, dirty>>
    /\ last' = [op |-> "mark_dirty", ok |-> TRUE]
    /\ UNCHANGED <<head_ids, panicked>>
    /\ CellFrame
    /\ UNCHANGED loader_vars

\* the cell replaced by DirtyCell::with_clean of the base view
WithClean ==
    /\ ~panicked
    /\ cell.frames = <<>>
    /\ cell' = CleanCell
    /\ head_ids' = IndexHeads(commits, CommitIds(commits))
    /\ dirty' = FALSE
    /\ last' = [op |-> "with_clean", ok |-> TRUE]
    /\ UNCHANGED panicked
    /\ CellFrame
    /\ UNCHANGED loader_vars

DirtyCellNext ==
    \/ WithClean
    \/ WithRef
    \/ GetOrEnsureClean
    \/ CellReturn
    \/ GetMut
    \/ MarkDirty

DirtyCellSpec == CellInit /\ [][DirtyCellNext]_vars

\* ------------------------------------------------------- operations
MaxOpHeads == 3
MaxOperations == 6

RootOperationId == 1

\* the repository the operations start from: root <- A <- B, a bookmark and
\* the working copy of w1 at B
SharedCommits ==
    << Commit(<<>>, {}, 0, 1),
       Commit(<<1>>, {1}, 2, 2),
       Commit(<<2>>, {1, 2}, 3, 3) >>

Operation(parents, view) == [parents |-> parents, view |-> view]

RootOperation ==
    Operation(<<>>, [head_ids |-> {Root},
                     wc_commit_ids |-> [n \in WorkspaceNames |-> NoId],
                     local_bookmarks |-> [b \in BookmarkNames |-> Absent]])

BaseOperation ==
    Operation(<<RootOperationId>>,
              [head_ids |-> {3},
               wc_commit_ids |-> [w1 |-> 3, w2 |-> NoId],
               local_bookmarks |-> [bk |-> Normal(3)]])

InitialOperations == <<RootOperation, BaseOperation>>

BaseOperationId == Len(InitialOperations)

\* load_at(op): a repository at the view of the operation
LoadAt(cs, op) ==
    RepoRecord(cs, op.view.head_ids, FALSE, op.view.wc_commit_ids,
               op.view.local_bookmarks, EmptyMap, FALSE)

\* the transactions the other processes run on the base operation, each on
\* the commit B: jj restore into B (two outcomes of the diff selector), a new
\* commit on B, jj abandon B, and a bookmark moved to A
TransactionKinds == {"restore1", "restore2", "new", "abandon", "bookmark"}
RestoredTrees == [restore1 |-> {1, 2, 8}, restore2 |-> {1, 2, 9}]
TransactionTargets == {3}

\* the calls such a transaction makes before its rebase_descendants
TransactionCalls(r, kind, target) ==
    CASE kind \in DOMAIN RestoredTrees ->
             WriteCommit(r, [r.commits[target] EXCEPT !.tree = RestoredTrees[kind]],
                         target)
      [] kind = "new" ->
             WriteCommit(r, NewCommit(r, <<target>>, r.commits[target].tree \cup {7}),
                         NoId)
      [] kind = "abandon" -> RecordAbandonedCommitOp(r, target)
      [] OTHER -> SetLocalBookmarkTargetOp(r, "bk", Normal(r.commits[target].parents[1]))

\* rebase_descendants of a transaction that finds no descendant to visit
RebaseNoDescendants(r, delete_abandoned_bookmarks) ==
    LET r1 == UpdateRewrittenReferences(r, delete_abandoned_bookmarks)
    IN IF r1.panicked THEN r1 ELSE ClearParentMapping(r1)

RECURSIVE OperationAncestors(_, _)
OperationAncestors(ops, id) ==
    {id} \cup UNION {OperationAncestors(ops, ops[id].parents[i]) :
                        i \in 1..Len(ops[id].parents)}

\* merge_operation: the closest common ancestor of the transaction's parent
\* operations and the other operation
ClosestCommonAncestor(ops, parent_ops, other) ==
    LET common == OperationAncestors(ops, other)
                      \cap UNION {OperationAncestors(ops, parent_ops[i]) :
                                     i \in 1..Len(parent_ops)}
    IN CHOOSE a \in common : \A b \in common : b <= a

\* the orders of the subsets of a set of operations
Selections(S) == UNION {Orders(T) : T \in SUBSET S}

MergeInit ==
    /\ op_store = InitialOperations
    /\ op_heads = {BaseOperationId}
    /\ tx = NoTx
    /\ commits = SharedCommits
    /\ head_ids = BaseOperation.view.head_ids
    /\ dirty = FALSE
    /\ wc_commit_ids = BaseOperation.view.wc_commit_ids
    /\ local_bookmarks = BaseOperation.view.local_bookmarks
    /\ parent_mapping = EmptyMap
    /\ commit_predecessors = EmptyMap
    /\ refs = BaseRefs
    /\ panicked = FALSE
    /\ pc = "idle"
    /\ to_visit = <<>>
    /\ call = NoCall
    /\ visited = <<>>
    /\ progress = <<>>
    /\ num = NoCounts
    /\ last = [op |-> "new", ok |-> TRUE]
    /\ nops = 0
    /\ ncalls = 0
    /\ cell = NoBorrows
    /\ attrs = <<>>

LoaderIdle == pc = "idle" /\ ~panicked /\ ~tx.active

\* another process commits a transaction it started at the base operation:
\* its commits reach the store, its operation the op heads
Transact ==
    \E kind \in TransactionKinds, target \in TransactionTargets :
      \E r1 \in {TransactionCalls(LoadAt(commits, op_store[BaseOperationId]), kind, target)} :
        \E r2 \in {RebaseNoDescendants(r1, kind = "abandon")} :
           /\ LoaderIdle
           /\ Len(op_store) < BaseOperationId + MaxOpHeads
           /\ op_heads \subseteq (BaseOperationId..(BaseOperationId + MaxOpHeads))
           /\ ~r2.panicked
           /\ FindDescendantsForRebase(EnsureClean(r1), DOMAIN r1.parent_mapping) = <<>>
           /\ commits' = r2.commits
           /\ op_store' = Append(op_store, Operation(<<BaseOperationId>>, ViewOf(r2)))
           /\ op_heads' = (op_heads \ {BaseOperationId}) \cup {Len(op_store) + 1}
           /\ UNCHANGED <<head_ids, dirty, wc_commit_ids, local_bookmarks,
                          parent_mapping, commit_predecessors, refs, panicked, pc, to_visit,
                          call, visited, progress, num, last, nops, ncalls, tx, cell, attrs>>

\* merge_operations(operations), up to the start of its transaction: the
\* root operation for no operation, the operation itself for one, and for
\* more a transaction on the repository loaded at the first
StartMergeOperations(operations, op, publish, default_index) ==
    /\ LoaderIdle
    /\ Len(op_store) < MaxOperations
    /\ UNCHANGED <<commits, to_visit, call, visited, progress, num, nops,
                   op_store, op_heads>>
    /\ IF Len(operations) <= 1
       THEN /\ last' = [op |-> op, ok |-> TRUE, args |-> operations,
                        value |-> IF operations = <<>> THEN RootOperationId
                                  ELSE operations[1]]
            /\ UNCHANGED <<head_ids, dirty, wc_commit_ids, local_bookmarks,
                           parent_mapping, commit_predecessors, refs, panicked, pc,
                           ncalls, tx, cell, attrs>>
       ELSE LET base_repo == LoadAt(commits, op_store[operations[1]])
            IN /\ SetRepo(base_repo) /\ commits' = commits
               /\ tx' = [operations |-> Tail(operations),
                         parent_ops |-> <<operations[1]>>,
                         args |-> operations, default_index |-> default_index,
                         publish |-> publish, active |-> TRUE]
               /\ last' = [op |-> "start_transaction", ok |-> TRUE]
               /\ ncalls' = 0
               /\ UNCHANGED <<cell, attrs>>
               /\ UNCHANGED pc

MergeOperations ==
    \E operations \in Selections(op_heads), default_index \in BOOLEAN :
        StartMergeOperations(operations, "merge_operations", FALSE, default_index)

\* load_at_head: resolve_op_heads loads the one head, or has the resolver
\* merge the heads and publishes what it returns
LoadAtHead ==
    \E operations \in Orders(op_heads) :
        IF Len(operations) = 1
        THEN /\ LoaderIdle
             /\ SetRepo(LoadAt(commits, op_store[operations[1]]))
             /\ last' = [op |-> "load_at_head", ok |-> TRUE, args |-> operations,
                         value |-> operations[1]]
             /\ UNCHANGED <<pc, to_visit, call, visited, progress, num, nops, ncalls, cell, attrs>>
             /\ UNCHANGED loader_vars
        ELSE StartMergeOperations(operations, "load_at_head", TRUE, TRUE)

\* tx.merge_operation(other_op): the other operation is merged into the
\* repository of the transaction, against the common ancestor operation
TxMergeOperation ==
    LET other_op == Head(tx.operations)
        ancestor_op == ClosestCommonAncestor(op_store, tx.parent_ops, other_op)
        r == Merge(Repo, op_store[ancestor_op].view, op_store[other_op].view,
                   tx.default_index)
    IN /\ tx.active /\ pc = "idle" /\ ~panicked
       /\ tx.operations # <<>>
       /\ last.op \in {"start_transaction", "rebase_descendants"} /\ last.ok
       /\ SetRepo(r)
       /\ tx' = [tx EXCEPT !.operations = Tail(@), !.parent_ops = Append(@, other_op)]
       /\ last' = [op |-> "merge_operation", ok |-> ~r.panicked]
       /\ UNCHANGED <<pc, to_visit, call, visited, progress, num, nops, ncalls, cell, attrs,
                      op_store, op_heads>>

\* tx.repo_mut().rebase_descendants() after the merge
TxRebaseDescendants ==
    /\ tx.active
    /\ last = [op |-> "merge_operation", ok |-> TRUE]
    /\ RebaseDescendants

\* a transaction written without parent operations
WriteOrphanOperation(ops, parent_ops, view) == Append(ops, Operation(<<>>, view))

\* tx.write(..).leave_unpublished(): the operation of the merged view, its
\* parents the operations merged
WriteOperation(ops, parent_ops, view) == Append(ops, Operation(parent_ops, view))

\* the end of merge_operations: the merged operation is written and
\* returned; resolve_op_heads puts it in the place of the heads it merged
TxWrite ==
    LET id == Len(op_store) + 1
        op == IF tx.publish THEN "load_at_head" ELSE "merge_operations"
    IN /\ tx.active /\ pc = "idle" /\ ~panicked
       /\ tx.operations = <<>>
       /\ last = [op |-> "rebase_descendants", ok |-> TRUE]
       /\ op_store' = WriteOperation(op_store, tx.parent_ops, ViewOf(Repo))
       /\ op_heads' = IF tx.publish
                      THEN (op_heads \ SeqToSet(tx.parent_ops)) \cup {id}
                      ELSE op_heads
       /\ SetRepo(EnsureClean(Repo))
       /\ last' = [op |-> op, ok |-> TRUE, args |-> tx.args, value |-> id]
       /\ tx' = [tx EXCEPT !.active = FALSE]
       /\ UNCHANGED <<pc, to_visit, call, visited, progress, num, nops, ncalls, cell, attrs>>

MergeNext ==
    \/ Transact
    \/ MergeOperations
    \/ LoadAtHead
    \/ TxMergeOperation
    \/ TxRebaseDescendants
    \/ VisitRebase
    \/ FinishTransform
    \/ TxWrite

MergeSpec == MergeInit /\ [][MergeNext]_vars

\* ------------------------------------------------------- properties
\* the view as view() hands it out
ObservedHeads == EnsureClean(Repo).head_ids

Visible == AncestorsOf(commits, ObservedHeads)

RebaseFamily == {"rebase_descendants", "reparent_descendants"}

\* the call in the call record has returned Ok and nothing was called since
CallReturnedOk ==
    /\ pc \in {"idle", "finished"}
    /\ ~panicked
    /\ last.op = call.op
    /\ last.ok

\* C1: whenever rebase_descendants() or reparent_descendants() (both are
\* rebase_or_reparent_descendants_with_options) has returned Ok,
\* parent_mapping is empty, whatever was recorded before or during the call.
C1_LedgerEmptyAfterRebase ==
    (pc = "idle" /\ last.op \in RebaseFamily /\ last.ok) => DOMAIN parent_mapping = {}

\* a rebase has returned Ok that started from a ledger with entries and
\* rewrote a commit while it ran
C1_Witness ==
    /\ CallReturnedOk
    /\ call.op \in RebaseFamily
    /\ DOMAIN call.pm0 # {}
    /\ progress # <<>>
    /\ DOMAIN parent_mapping = {}

\* C2: the root commit is never a key of parent_mapping; the four recording
\* calls abort when the old commit is the root, before anything is inserted.
C2_RootNeverRewritten ==
    /\ Root \notin DOMAIN parent_mapping
    /\ \A id \in DOMAIN parent_mapping : id \in CommitIds(commits)

\* a recording call was made with the root commit and aborted
C2_Witness ==
    /\ panicked
    /\ last.op \in {"set_rewritten_commit", "set_divergent_rewrite",
                    "record_abandoned_commit", "record_abandoned_commit_with_parents"}
    /\ ~last.ok
    /\ Root \notin DOMAIN parent_mapping

\* C3: in every view handed out by view(), head_ids is non-empty and, when
\* it has more than one element, no head is an ancestor of another head (so
\* the root commit is no head next to another head).
C3_ObservedHeadsAntichain ==
    ~panicked =>
        /\ ObservedHeads # {}
        /\ \A x \in ObservedHeads : \A y \in ObservedHeads \ {x} :
               ~IsAncestor(commits, x, y)

\* C4: every commit id stored in wc_commit_ids is a head or an ancestor of a
\* head of the view.
C4_WcCommitsVisible ==
    ~panicked =>
        \A name \in WorkspaceNames :
            wc_commit_ids[name] # NoId => wc_commit_ids[name] \in Visible

\* descendants(roots) in the view the call started from, minus the keys the
\* ledger had then
ExpectedVisits ==
    {x \in 1..call.ncommits0 :
        /\ x \in AncestorsOf(commits, call.heads0)
        /\ \E root \in call.roots : IsAncestor(commits, root, x)
        /\ x \notin DOMAIN call.pm0}

LoopDone ==
    \/ pc = "transform" /\ to_visit = <<>>
    \/ pc \in {"idle", "finished"} /\ last.op = call.op /\ last.ok

\* C5: a transform_descendants call passes to its callback each commit of
\* descendants(roots) minus the keys parent_mapping had at the start exactly
\* once, and no other commit: no commit is passed twice, none outside that
\* set (so none written during the traversal), and when the loop has ended
\* all of the set have been passed.
C5_CallbackOncePerDescendant ==
    /\ \A i \in 1..Len(visited) : \A j \in 1..Len(visited) :
           visited[i] = visited[j] => i = j
    /\ SeqToSet(visited) \subseteq ExpectedVisits
    /\ (LoopDone /\ ~panicked) => SeqToSet(visited) = ExpectedVisits

\* a transform that started with entries in the ledger has ended after its
\* callback rewrote two commits, the second onto the first
C5_Witness ==
    /\ LoopDone /\ ~panicked
    /\ DOMAIN call.pm0 # {}
    /\ Len(visited) = 2
    /\ Len(commits) >= call.ncommits0 + 2
    /\ \E x \in DOMAIN call.pm0 : x \in AncestorsOf(commits, call.heads0)

\* the commits written since the call in the call record started
NewIds == (call.ncommits0 + 1)..Len(commits)

\* the call started with exactly the commits of S recorded as abandoned onto
\* their own parents (record_abandoned_commit), or is jj abandon of S
Abandons(S) ==
    \/ /\ call.op = "rebase_descendants"
       /\ DOMAIN call.pm0 = S
       /\ \A k \in S : call.pm0[k] = Abandoned(BaseCommits[k].parents)
    \/ /\ call.op = "abandon"
       /\ call.to_abandon = S

\* when the call started, B, C and D were the only commits of their changes
ChainUntouched ==
    \A n \in 1..call.ncommits0 : commits[n].change \in {3, 4, 5} => n = commits[n].change

NoWorkspaceAt(S) == \A name \in WorkspaceNames : call.wc0[name] \notin S

\* the new commits that replace the old commit c: they carry its change id
Replacements(c) == {n \in NewIds : commits[n].change = commits[c].change}

\* C6: for the chain A <- B <- C <- D (2 <- 3 <- 4 <- 5; E = 6 and F = 7 are
\* heads beside it, and nothing of the chain was rewritten before), abandoning B and rebasing the descendants replaces C by
\* C' with the only parent A and D by D' with the only parent C', the heads
\* of the chain are exactly {D'} ({C'} when D was no longer visible), and
\* none of B, C, D is reachable from the heads; abandoning B and C puts D'
\* directly on A.
C6_AbandonInteriorCommits ==
    /\ (CallReturnedOk /\ Abandons({3}) /\ NoWorkspaceAt({3}) /\ ChainUntouched
            /\ call.heads0 = {5, 6, 7}) =>
          \E c \in Replacements(4), d \in Replacements(5) :
              /\ commits[c].parents = <<2>>
              /\ commits[d].parents = <<c>>
              /\ ObservedHeads \ {6, 7} = {d}
              /\ Visible \cap {3, 4, 5} = {}
    /\ (CallReturnedOk /\ Abandons({3}) /\ NoWorkspaceAt({3}) /\ ChainUntouched
            /\ call.heads0 = {4, 6, 7}) =>
          \E c \in Replacements(4) :
              /\ commits[c].parents = <<2>>
              /\ ObservedHeads \ {6, 7} = {c}
              /\ Visible \cap {3, 4} = {}
    /\ (CallReturnedOk /\ Abandons({3, 4}) /\ NoWorkspaceAt({3, 4}) /\ ChainUntouched
            /\ call.heads0 = {5, 6, 7}) =>
          \E d \in Replacements(5) :
              /\ commits[d].parents = <<2>>
              /\ Replacements(4) = {}
              /\ ObservedHeads \ {6, 7} = {d}
              /\ Visible \cap {3, 4, 5} = {}

\* B was abandoned by record_abandoned_commit and rebase_descendants has
\* put C' on A and D' on C'
C6_Witness ==
    /\ CallReturnedOk
    /\ call.op = "rebase_descendants"
    /\ Abandons({3}) /\ NoWorkspaceAt({3}) /\ ChainUntouched
    /\ call.heads0 = {5, 6, 7}
    /\ \E c \in Replacements(4), d \in Replacements(5) :
           commits[c].parents = <<2>> /\ commits[d].parents = <<c>>

\* the step that ends a transform: the references and the heads are updated
EndsTransform ==
    /\ pc = "transform" /\ to_visit = <<>> /\ ~panicked
    /\ pc' # "transform" /\ ~panicked'

\* what update_heads is to leave, from the repository update_all_references
\* hands to it
HeadsAfterUpdate ==
    LET r1 == UpdateAllReferences(Repo, call.delete_abandoned_bookmarks)
        keys == DOMAIN r1.parent_mapping
    IN EnforceViewInvariants(r1.commits,
           (EnsureClean(r1).head_ids \ keys)
               \cup (ParentsOf(r1.commits, keys) \ keys))

\* C7: at the end of every transform and rebase, update_heads sets the heads
\* to the normalisation of (head_ids minus the keys of the ledger) union (the
\* parents of the keys that are no keys); for C <- D with D a head (4 <- 5),
\* record_abandoned_commit(D) and rebase_descendants() leave the heads {C}
\* beside E and F, and an empty ledger.
C7_UpdateHeads ==
    /\ [][EndsTransform => ObservedHeads' = HeadsAfterUpdate]_vars
    /\ [](CallReturnedOk /\ call.op = "rebase_descendants" /\ Abandons({5})
            /\ NoWorkspaceAt({5}) /\ call.heads0 = {5, 6, 7}
          => ObservedHeads = {4, 6, 7} /\ DOMAIN parent_mapping = {})

\* the head D was abandoned and rebase_descendants has made its parent a head
C7_Witness ==
    /\ CallReturnedOk /\ call.op = "rebase_descendants" /\ Abandons({5})
    /\ NoWorkspaceAt({5}) /\ call.heads0 = {5, 6, 7}
    /\ ObservedHeads = {4, 6, 7}

\* B was recorded as abandoned while C was visible, and the descendants
\* have been rebased
AbandonedBThenRebased ==
    /\ CallReturnedOk
    /\ call.op = "rebase_descendants"
    /\ Abandons({3})
    /\ ChainUntouched
    /\ 4 \in AncestorsOf(commits, call.heads0)

\* C8 as stated: after record_abandoned_commit(B) and rebase_descendants(),
\* C' carries the tree and the description of C.
C8_RebasedKeepsTree ==
    AbandonedBThenRebased =>
        \A c \in Replacements(4) :
            /\ commits[c].tree = commits[4].tree
            /\ commits[c].desc = commits[4].desc

\* C8, amended: C' carries the description of C, and the tree of C merged
\* onto the tree of A against the tree of B; after reparent_descendants()
\* it carries the tree of C itself.
C8_RebasedMergesTree ==
    /\ AbandonedBThenRebased =>
          /\ Replacements(4) # {}
          /\ \A c \in Replacements(4) :
                /\ commits[c].parents = <<2>>
                /\ commits[c].desc = commits[4].desc
                /\ commits[c].tree = MergeTrees(commits[2].tree, commits[3].tree,
                                                commits[4].tree)
    /\ (CallReturnedOk /\ call.op = "reparent_descendants"
            /\ call.pm0 = (3 :> Abandoned(<<2>>))
            /\ ChainUntouched
            /\ 4 \in AncestorsOf(commits, call.heads0)) =>
          /\ Replacements(4) # {}
          /\ \A c \in Replacements(4) :
                /\ commits[c].parents = <<2>>
                /\ commits[c].desc = commits[4].desc
                /\ commits[c].tree = commits[4].tree

\* C was rebased from B onto A and lost what B had added
C8_Witness ==
    /\ AbandonedBThenRebased
    /\ \E c \in Replacements(4) :
           /\ commits[c].parents = <<2>>
           /\ commits[c].tree # commits[4].tree
           /\ commits[c].desc = commits[4].desc

\* the bookmark after the update, for a bookmark that pointed at the key b
BookmarkUpdated(b) ==
    LET entry == parent_mapping[b]
        resolved == ResolveRewriteMappingWith(parent_mapping, RewriteKinds).map[b]
        target == local_bookmarks'["bk"]
    IN IF entry.kind = "Abandoned"
       THEN IF call.delete_abandoned_bookmarks
            THEN target = Absent
            ELSE /\ AddedIds(target) = SeqToSet(resolved)
                 /\ (b = 3 /\ entry = Abandoned(<<2>>) /\ 2 \notin DOMAIN parent_mapping)
                        => target = Normal(2)
       ELSE /\ target # Absent
            /\ AddedIds(target) = SeqToSet(resolved)

\* C9: when the references are updated, a bookmark that points at a commit
\* whose own entry is Abandoned becomes absent with
\* delete_abandoned_bookmarks, and moves to the resolved new parents of the
\* commit without it (to A for B abandoned onto A); a bookmark on a commit
\* whose entry is Rewritten or Divergent is never deleted.
C9_AbandonedBookmarks ==
    [][EndsTransform =>
          \A b \in DOMAIN parent_mapping :
              local_bookmarks["bk"] = Normal(b) => BookmarkUpdated(b)]_vars

\* jj abandon --retain-bookmarks of B has moved the bookmark from B to A
C9_Witness ==
    /\ CallReturnedOk
    /\ call.op = "abandon"
    /\ ~call.delete_abandoned_bookmarks
    /\ 3 \in call.to_abandon /\ 2 \notin call.to_abandon
    /\ call.bm0["bk"] = Normal(3)
    /\ local_bookmarks["bk"] = Normal(2)

\* the commits visible when the call started whose only parent had a
\* Divergent entry then, and which had no entry themselves
ChildrenOfDivergent ==
    {c \in 1..call.ncommits0 :
        /\ c \notin DOMAIN call.pm0
        /\ c \in AncestorsOf(commits, call.heads0)
        /\ Len(commits[c].parents) = 1
        /\ commits[c].parents[1] \in DOMAIN call.pm0
        /\ call.pm0[commits[c].parents[1]].kind = "Divergent"}

\* C10: during rebase_descendants a commit whose only parent B was recorded
\* with set_divergent_rewrite keeps B as its parent and is not rewritten: it
\* gets no entry in the ledger, no progress is reported for it and no commit
\* replaces it; after the call it is still reachable from the heads, as are
\* B1 and B2 when they were before.
C10_DivergentNotRebased ==
    (call.op \in RebaseFamily /\ ~panicked /\ (pc = "transform" \/ CallReturnedOk)) =>
        \A c \in ChildrenOfDivergent :
            LET b == commits[c].parents[1]
            IN /\ c \notin DOMAIN parent_mapping
               /\ \A i \in 1..Len(progress) : progress[i][1] # c
               /\ Replacements(c) = {}
               /\ CallReturnedOk =>
                     /\ c \in Visible
                     /\ \A n \in SeqToSet(call.pm0[b].ids) :
                            n \in AncestorsOf(commits, call.heads0) => n \in Visible

\* rebase_descendants has returned with B divergent and its child C in place
C10_Witness ==
    /\ CallReturnedOk
    /\ call.op = "rebase_descendants"
    /\ 3 \in DOMAIN call.pm0 /\ call.pm0[3] = Divergent(<<6, 7>>)
    /\ 4 \in ChildrenOfDivergent
    /\ visited # <<>>
    /\ {4, 6, 7} \subseteq Visible

\* the rewrite map update_all_references resolves from the ledger
ResolvedMap == ResolveRewriteMappingWith(parent_mapping, RewriteKinds).map

\* n1, old, n2, old, .., nk: the new ids as adds, the old id as every remove
Interleaved(new_ids, old_id) ==
    [i \in 1..(2 * Len(new_ids) - 1) |->
        IF i % 2 = 1 THEN new_ids[(i + 1) \div 2] ELSE old_id]

\* C11: when the references are updated, a bookmark whose target is
\* normal(B) with B recorded as Divergent(B1, B2) becomes the conflict that
\* adds B1 and B2 and removes B; in general a bookmark on an old commit that
\* resolves to n1..nk (and is not deleted as abandoned) becomes the target
\* that interleaves n1..nk with the old id.
C11_DivergentBookmarkConflict ==
    [][EndsTransform =>
          \A b \in DOMAIN parent_mapping :
              (/\ local_bookmarks["bk"] = Normal(b)
               /\ ~(call.delete_abandoned_bookmarks
                        /\ parent_mapping[b].kind = "Abandoned")) =>
                  /\ local_bookmarks'["bk"] = Interleaved(ResolvedMap[b], b)
                  /\ parent_mapping[b] = Divergent(<<6, 7>>) =>
                        /\ local_bookmarks'["bk"] = <<6, b, 7>>
                        /\ AddedIds(local_bookmarks'["bk"]) = {6, 7}]_vars

\* rebase_descendants has turned the bookmark on the divergent B into the
\* conflict of B1 and B2
C11_Witness ==
    /\ CallReturnedOk
    /\ call.op = "rebase_descendants"
    /\ call.bm0["bk"] = Normal(3)
    /\ 3 \in DOMAIN call.pm0 /\ call.pm0[3] = Divergent(<<6, 7>>)
    /\ local_bookmarks["bk"] = <<6, 3, 7>>

\* C12: when the references are updated, a workspace whose working-copy
\* commit is a key of the ledger with a Rewritten or Divergent entry gets the
\* first of the resolved new ids (B1 for Divergent(B1, B2)); a workspace
\* whose working-copy commit is no key keeps it.
C12_WcMovesToFirstNewId ==
    [][EndsTransform =>
          \A name \in WorkspaceNames :
              LET old == wc_commit_ids[name]
              IN IF old \in DOMAIN parent_mapping
                 THEN parent_mapping[old].kind # "Abandoned" =>
                          /\ wc_commit_ids'[name] = ResolvedMap[old][1]
                          /\ parent_mapping[old] = Divergent(<<6, 7>>) =>
                                 wc_commit_ids'[name] = 6
                 ELSE wc_commit_ids'[name] = old]_vars

\* both workspaces stood at the divergent B and stand at B1 now
C12_Witness ==
    /\ CallReturnedOk
    /\ call.op \in RebaseFamily
    /\ 3 \in DOMAIN call.pm0 /\ call.pm0[3] = Divergent(<<6, 7>>)
    /\ call.wc0 = [w1 |-> 3, w2 |-> 3]
    /\ wc_commit_ids = [w1 |-> 6, w2 |-> 6]

\* the working-copy commits with an Abandoned entry
AbandonedWcCommits ==
    {old \in DOMAIN parent_mapping :
        /\ parent_mapping[old].kind = "Abandoned"
        /\ \E name \in WorkspaceNames : wc_commit_ids[name] = old}

\* C13: when the references are updated, the workspaces whose working-copy
\* commit is recorded as Abandoned get a newly written commit whose parents
\* are the resolved new parents of the abandoned commit, whose tree is the
\* merged tree of those parents and which has no description; one commit is
\* written per abandoned commit, and the workspaces that stood at the same
\* abandoned commit stand at the same new commit.
C13_AbandonedWcRecreated ==
    [][EndsTransform =>
          /\ Len(commits') = Len(commits) + Cardinality(AbandonedWcCommits)
          /\ \A old \in AbandonedWcCommits :
                \E n \in (Len(commits) + 1)..Len(commits') :
                    /\ commits'[n].parents = ResolvedMap[old]
                    /\ commits'[n].tree = MergeCommitTrees(commits', ResolvedMap[old])
                    /\ commits'[n].desc = 0
                    /\ \A name \in WorkspaceNames :
                           wc_commit_ids[name] = old => wc_commit_ids'[name] = n]_vars

\* both workspaces stood at the abandoned B and share one new commit on A
C13_Witness ==
    /\ CallReturnedOk
    /\ call.wc0 = [w1 |-> 3, w2 |-> 3]
    /\ \/ (call.op = "abandon" /\ 3 \in call.to_abandon /\ 2 \notin call.to_abandon)
       \/ (call.op = "rebase_descendants" /\ call.pm0 = (3 :> Abandoned(<<2>>)))
    /\ wc_commit_ids["w1"] = wc_commit_ids["w2"]
    /\ wc_commit_ids["w1"] \in NewIds
    /\ commits[wc_commit_ids["w1"]].parents = <<2>>
    /\ commits[wc_commit_ids["w1"]].tree = commits[2].tree

\* the rebase_descendants call that ends in this step was made right after a
\* rebase_descendants call that returned Ok: no call returned in between
EndsSecondRebase ==
    /\ EndsTransform
    /\ call.op = "rebase_descendants"
    /\ last = [op |-> "rebase_descendants", ok |-> TRUE]

ShouldRestore(old) ==
    \/ call.mode = "reparent"
    \/ call.mode = "abandon_restore" /\ old \notin call.to_abandon

\* C18: in a call whose should_restore is true for the commit visited
\* (reparent_descendants, --restore-descendants), a descendant whose parents
\* changed is rewritten into a commit with the old commit's tree, description
\* and change id, whose parents are the new parents: only the parents differ.
C18_ReparentKeepsTree ==
    [][(/\ pc = "transform" /\ ~panicked /\ to_visit # <<>>
        /\ to_visit' # to_visit
        /\ ShouldRestore(to_visit[Len(to_visit)])
        /\ ~panicked') =>
          LET old == to_visit[Len(to_visit)]
              new_parents == NewParents(parent_mapping, commits[old].parents).ids
              n == Len(commits')
          IN /\ ParentsChanged(commits, old, new_parents) => n = Len(commits) + 1
             /\ n > Len(commits) =>
                   /\ n = Len(commits) + 1
                   /\ commits'[n].tree = commits[old].tree
                   /\ commits'[n].desc = commits[old].desc
                   /\ commits'[n].change = commits[old].change
                   /\ commits'[n].parents = new_parents]_vars

\* reparent_descendants after B was abandoned: C now sits on A with the tree
\* it had, although B's change is no longer below it
C18_Witness ==
    /\ CallReturnedOk
    /\ call.op = "reparent_descendants"
    /\ call.pm0 = (3 :> Abandoned(<<2>>))
    /\ \E i \in 1..Len(progress) :
           /\ progress[i][1] = 4
           /\ commits[progress[i][2]].parents = <<2>>
           /\ commits[progress[i][2]].tree = commits[4].tree
           /\ commits[progress[i][2]].tree #
                  MergeTrees(commits[2].tree, commits[3].tree, commits[4].tree)

\* C19: the outcome of rebase_descendants does not depend on the order in
\* which the parent_mapping hash map hands out its keys: at the reference
\* update that ends the call, every order of the keys (every topological one
\* for resolve_rewrite_mapping_with) yields the same resolved map and the same
\* heads, so two repositories with the same ledger and view end with the same
\* view; the roots are handed to a revset as a set of commits.
C19_HashOrderIndependent ==
    [][(EndsTransform /\ call.op \in RebaseFamily) =>
          /\ TopoKeyOrders(parent_mapping, RewriteKinds) # {}
          /\ \A o \in TopoKeyOrders(parent_mapping, RewriteKinds) :
                ResolveLoop(parent_mapping, RewriteKinds, o, EmptyMap) = ResolvedMap
          /\ LET r1 == UpdateAllReferences(Repo, call.delete_abandoned_bookmarks)
             IN \A o \in Orders(DOMAIN parent_mapping) :
                   /\ ViewOf(UpdateHeadsInOrder(r1, o)) = ViewOf(UpdateHeads(r1))
                   /\ ViewOf(UpdateHeadsInOrder(r1, o))
                          = [head_ids |-> EnsureClean(
                                 RepoRecord(commits', head_ids', dirty', wc_commit_ids',
                                            local_bookmarks', parent_mapping',
                                            panicked')).head_ids,
                             wc_commit_ids |-> wc_commit_ids',
                             local_bookmarks |-> local_bookmarks']]_vars

\* a rebase has returned that started from a chain of two entries (B
\* rewritten as C, C rewritten as E), which two key orders resolve
C19_Witness ==
    /\ CallReturnedOk
    /\ call.op = "rebase_descendants"
    /\ DOMAIN call.pm0 = {3, 4}
    /\ call.pm0[3] = Rewritten(4) /\ call.pm0[4] = Rewritten(6)
    /\ Cardinality(Orders(DOMAIN call.pm0)) = 2
    /\ Cardinality(TopoKeyOrders(call.pm0, RewriteKinds)) = 1
    /\ local_bookmarks # call.bm0

\* the commits an operation shows in the place of b: the heads of its view
\* with b's change id
RewritesIn(op, b) ==
    {c \in op_store[op].view.head_ids : c # b /\ commits[c].change = commits[b].change}

\* the transaction of merge_operations merges two operations that each
\* rewrote the commit B of the base operation (commit 3) into another commit
ConcurrentRewrites(first, second) ==
    /\ Cardinality(RewritesIn(first, 3)) = 1
    /\ Cardinality(RewritesIn(second, 3)) = 1
    /\ RewritesIn(first, 3) # RewritesIn(second, 3)
    /\ 3 \notin op_store[first].view.head_ids \cup op_store[second].view.head_ids

\* this step is tx.merge_operation of the second of two concurrent rewrites
\* into the transaction started at the first, on the default index
MergesConcurrentRewrite ==
    /\ tx.active /\ tx.default_index
    /\ tx.parent_ops = <<tx.args[1]>>
    /\ tx'.parent_ops = <<tx.args[1], tx.args[2]>>
    /\ ConcurrentRewrites(tx.args[1], tx.args[2])
    /\ ~panicked'

\* C14 as stated: merging the operation that rewrote B as B'' into the one
\* that rewrote B as B' leaves B's ledger entry as Divergent {B', B''}.
C14_MergeRecordsDivergent ==
    [][MergesConcurrentRewrite =>
          /\ 3 \in DOMAIN parent_mapping'
          /\ parent_mapping'[3].kind = "Divergent"
          /\ SeqToSet(parent_mapping'[3].ids)
                 = RewritesIn(tx.args[1], 3) \cup RewritesIn(tx.args[2], 3)]_vars

\* C14 (amended): merge_view runs record_rewrites once per side, and each
\* run finds one new commit for B: the entry Rewritten(B') of the own side
\* is overwritten by Rewritten(B'') of the merged side, which is B's entry
\* after the merge; B' and B'' are both heads of the merged view.
C14_MergeRecordsLastRewrite ==
    [][MergesConcurrentRewrite =>
          /\ 3 \in DOMAIN parent_mapping'
          /\ parent_mapping'[3].kind = "Rewritten"
          /\ SeqToSet(parent_mapping'[3].ids) = RewritesIn(tx.args[2], 3)
          /\ RewritesIn(tx.args[1], 3) \cup RewritesIn(tx.args[2], 3)
                 \subseteq head_ids']_vars

\* the second of two concurrent rewrites of B has been merged
C14_Witness ==
    /\ tx.active /\ tx.default_index
    /\ last = [op |-> "merge_operation", ok |-> TRUE]
    /\ Len(tx.parent_ops) = 2
    /\ ConcurrentRewrites(tx.parent_ops[1], tx.parent_ops[2])
    /\ 3 \in DOMAIN parent_mapping
    /\ parent_mapping[3].kind = "Rewritten"
    /\ parent_mapping[3].ids[1] \in RewritesIn(tx.parent_ops[2], 3)

\* the two concurrent rewrites of B have been merged and rebase_descendants
\* has returned
MergedConcurrentRewrites ==
    /\ tx.active /\ pc = "idle" /\ ~panicked
    /\ Len(tx.args) = 2 /\ tx.operations = <<>>
    /\ ConcurrentRewrites(tx.args[1], tx.args[2])
    /\ last = [op |-> "rebase_descendants", ok |-> TRUE]

\* C15: with a bookmark at B in the base operation, after the operations
\* that rewrote B as B' and as B'' are merged and rebase_descendants has run,
\* the bookmark is the conflict that adds B' and B'' and removes B; the
\* operation merge_operations then writes holds that target.
C15_BookmarkConflictAfterMerge ==
    /\ MergedConcurrentRewrites =>
          /\ AddedIds(local_bookmarks["bk"])
                 = RewritesIn(tx.args[1], 3) \cup RewritesIn(tx.args[2], 3)
          /\ Len(local_bookmarks["bk"]) = 3
          /\ local_bookmarks["bk"][2] = 3
    /\ (/\ last.op \in {"merge_operations", "load_at_head"}
        /\ Len(last.args) = 2
        /\ ConcurrentRewrites(last.args[1], last.args[2])) =>
          /\ AddedIds(op_store[last.value].view.local_bookmarks["bk"])
                 = RewritesIn(last.args[1], 3) \cup RewritesIn(last.args[2], 3)
          /\ Len(op_store[last.value].view.local_bookmarks["bk"]) = 3

\* merge_operations has returned the merge of the two rewrites of B
C15_Witness ==
    /\ last.op = "merge_operations" /\ last.ok
    /\ Len(last.args) = 2
    /\ ConcurrentRewrites(last.args[1], last.args[2])
    /\ op_store[BaseOperationId].view.local_bookmarks["bk"] = Normal(3)
    /\ Cardinality(AddedIds(op_store[last.value].view.local_bookmarks["bk"])) = 2

\* the view of the repository after the step
ViewAfter ==
    ViewOf(RepoRecord(commits', head_ids', dirty', wc_commit_ids', local_bookmarks',
                      parent_mapping', panicked'))

\* a merge_operations or load_at_head call returns in this step
MergeReturns ==
    /\ last' # last
    /\ last'.op \in {"merge_operations", "load_at_head"}

\* C16: merge_operations(ops) returns the root operation for no operation
\* and the operation itself for one, writing no operation; for two or more it
\* starts at the view of the first, merges the others in the order given,
\* each merge followed by a rebase_descendants that empties the ledger, and
\* writes one operation whose parents are all of ops; load_at_head over
\* several heads puts that operation in their place and loads its view.
C16_MergeOperations ==
    [][/\ (MergeReturns /\ Len(last'.args) = 0) =>
              last'.value = RootOperationId /\ op_store' = op_store
       /\ (MergeReturns /\ Len(last'.args) = 1) =>
              last'.value = last'.args[1] /\ op_store' = op_store
       /\ (~tx.active /\ tx'.active) =>
              /\ Len(tx'.args) >= 2
              /\ ViewAfter = op_store[tx'.args[1]].view
              /\ tx'.parent_ops = <<tx'.args[1]>>
              /\ parent_mapping' = EmptyMap
              /\ op_store' = op_store
       /\ (tx.active /\ tx'.parent_ops # tx.parent_ops) =>
              /\ parent_mapping = EmptyMap
              /\ ncalls = Len(tx.parent_ops) - 1
              /\ tx'.parent_ops = SubSeq(tx.args, 1, Len(tx.parent_ops) + 1)
       /\ (MergeReturns /\ Len(last'.args) >= 2) =>
              /\ tx.active /\ ~tx'.active
              /\ last'.args = tx.args
              /\ tx.parent_ops = tx.args
              /\ ncalls = Len(tx.args) - 1
              /\ parent_mapping = EmptyMap
              /\ Len(op_store') = Len(op_store) + 1
              /\ SubSeq(op_store', 1, Len(op_store)) = op_store
              /\ last'.value = Len(op_store')
              /\ op_store'[last'.value].parents = tx.args
              /\ op_store'[last'.value].view = ViewOf(Repo)
              /\ IF last'.op = "load_at_head"
                 THEN /\ SeqToSet(tx.args) = op_heads
                      /\ op_heads' = {last'.value}
                      /\ ViewAfter = op_store'[last'.value].view
                 ELSE op_heads' = op_heads
       /\ (tx.active /\ ~tx'.active) => MergeReturns]_vars

\* load_at_head has reconciled three op heads into one operation
C16_Witness ==
    /\ last.op = "load_at_head" /\ last.ok
    /\ Len(last.args) = 3
    /\ op_heads = {last.value}
    /\ op_store[last.value].parents = last.args
    /\ ncalls = 2
    /\ ViewOf(Repo) = op_store[last.value].view

\* an id the ledger replaces: one with a Rewritten or Abandoned entry
Replaced(pm, id) == id \in DOMAIN pm /\ pm[id].kind # "Divergent"

RECURSIVE Expansion(_, _)
\* the left-to-right expansion of an id: a replaced id gives way to the
\* expansions of its new parent ids, any other id stands for itself
Expansion(pm, id) ==
    IF Replaced(pm, id)
    THEN LET Expand(x) == Expansion(pm, x)
         IN FlatMap(Expand, NewParentIds(pm[id]))
    ELSE <<id>>

\* the ids of the expansion of a list, each at its first occurrence
FirstOccurrences(pm, old_ids) ==
    LET Expand(x) == Expansion(pm, x)
        all == FlatMap(Expand, old_ids)
    IN SelectSeq([i \in 1..Len(all) |-> <<i, all[i]>>],
                 LAMBDA p : \A j \in 1..(p[1] - 1) : all[j] # p[2])

\* C20: for a non-empty list P and a ledger without cycle, new_parents(P)
\* returns the non-empty list of the ids of the left-to-right expansion of P,
\* in which every id with a Rewritten or Abandoned entry is replaced, again
\* and again, by its new parent ids while Divergent and unmapped ids stay;
\* each id stands once, at its first occurrence.
C20_NewParentsExpansion ==
    (/\ last.op = "new_parents"
     /\ ~LedgerHasCycle(parent_mapping, {"Rewritten", "Abandoned"})) =>
        LET expected == FirstOccurrences(parent_mapping, last.args)
        IN /\ last.ok
           /\ last.value # <<>>
           /\ last.value = [i \in 1..Len(expected) |-> expected[i][2]]
           /\ Cardinality(SeqToSet(last.value)) = Len(last.value)
           /\ \A i \in 1..Len(last.value) : ~Replaced(parent_mapping, last.value[i])

\* new_parents(<<B, C>>) with B abandoned onto E and F, C rewritten as E:
\* E, F, E expands to E, F
C20_Witness ==
    /\ last.op = "new_parents" /\ last.ok
    /\ last.args = <<3, 4>>
    /\ parent_mapping = (3 :> Abandoned(<<6, 7>>) @@ 4 :> Rewritten(6))
    /\ last.value = <<6, 7>>

\* an id that lies on a cycle of the entries passing the predicate
OnLedgerCycle(pm, pred, id) == id \in ReachableFrom(pm, pred, Successors(pm, pred, id))

\* C21: a ledger with a cycle is rejected by both resolution routines:
\* new_parents(P) panics for every P that holds an id lying on a cycle of the
\* ledger, and resolve_rewrite_mapping_with panics whenever the entries that
\* pass its predicate hold a cycle. (The code drops the parents on the cycle
\* and returns the others: with B abandoned onto C and E, and C rewritten as
\* B, new_parents(<<B>>) returns <<E>>.)
C21_CyclicLedgerPanics ==
    /\ (/\ last.op = "new_parents"
        /\ \E i \in 1..Len(last.args) :
              OnLedgerCycle(parent_mapping, {"Rewritten", "Abandoned"}, last.args[i]))
          => ~last.ok /\ panicked
    /\ (/\ last.op = "resolve_rewrite_mapping_with"
        /\ LedgerHasCycle(parent_mapping, last.args))
          => ~last.ok /\ panicked

\* C22: only a successful rebase_or_reparent_descendants_with_options takes
\* keys out of parent_mapping. A step that loses a key is the return of
\* rebase_descendants or reparent_descendants with Ok, and it leaves the ledger
\* empty; transform_descendants and transform_descendants_with_options return
\* with every key the ledger held before the call and every key their
\* callback recorded.
C22_OnlyRebaseClearsLedger ==
    [][/\ ~(DOMAIN parent_mapping \subseteq DOMAIN parent_mapping') =>
              /\ pc = "transform" /\ call.op \in RebaseFamily
              /\ pc' = "idle" /\ last'.op = call.op /\ last'.ok
              /\ parent_mapping' = EmptyMap
       /\ (pc = "transform" /\ pc' # "transform" /\ call.op \notin RebaseFamily) =>
              /\ DOMAIN call.pm0 \subseteq DOMAIN parent_mapping'
              /\ DOMAIN parent_mapping \subseteq DOMAIN parent_mapping'
              /\ call.op = "abandon" => SeqToSet(visited) \subseteq DOMAIN parent_mapping'
      ]_vars

\* transform_descendants has returned: the ledger holds the keys it started
\* with and one the callback recorded for a visited commit
C22_Witness ==
    /\ CallReturnedOk
    /\ last = [op |-> "transform_descendants", ok |-> TRUE]
    /\ call.pm0 # EmptyMap
    /\ DOMAIN call.pm0 \subseteq DOMAIN parent_mapping
    /\ \E c \in SeqToSet(visited) : c \in DOMAIN parent_mapping \ DOMAIN call.pm0

\* the step is a call of set_predecessors(id, predecessors): the API call,
\* or the one the commit builder makes for the commit it has just written
RecordsPredecessors(id, predecessors) ==
    \/ /\ last'.op = "set_predecessors" /\ nops' = nops + 1
       /\ id \in PredecessorIds /\ predecessors \in PredecessorLists
    \/ /\ id \in (Len(commits) + 1)..Len(commits')
       /\ id \notin DOMAIN commit_predecessors

\* C23: commit_predecessors is never cleared or shrunk during a transaction.
\* Every step, those of transform_descendants and rebase_descendants
\* included, keeps every entry, and an entry changes its value only in a call
\* of set_predecessors for its id; consume() returns the map as it stands.
C23_PredecessorsKept ==
    [][/\ \A id \in DOMAIN commit_predecessors :
             /\ id \in DOMAIN commit_predecessors'
             /\ commit_predecessors'[id] # commit_predecessors[id] =>
                    RecordsPredecessors(id, commit_predecessors'[id])
       /\ \A id \in DOMAIN commit_predecessors' \ DOMAIN commit_predecessors :
             RecordsPredecessors(id, commit_predecessors'[id])
       /\ pc' = "consumed" =>
             last'.value.commit_predecessors = commit_predecessors
      ]_vars

\* set_predecessors(E, <<B, C>>) called, B rewritten as E, the descendants of
\* B rebased, and the repository consumed: the last value recorded for E and
\* the predecessors of the rebased commits are handed out
C23_Witness ==
    /\ pc = "consumed"
    /\ call.op = "rebase_descendants" /\ visited # <<>>
    /\ 6 \in DOMAIN last.value.commit_predecessors
    /\ last.value.commit_predecessors[6] = <<3, 4>>
    /\ \E new \in NewIds : new \in DOMAIN last.value.commit_predecessors

\* the entries a recording call may leave for the commit it is called for
EntriesOf(op, old_id) ==
    CASE op = "set_rewritten_commit" -> {Rewritten(new_id) : new_id \in RewriteTargets}
      [] op = "set_divergent_rewrite" -> {Divergent(new_ids) : new_ids \in DivergentTargets}
      [] op = "record_abandoned_commit" -> {Abandoned(commits[old_id].parents)}
      [] op = "record_abandoned_commit_with_parents" ->
             {Abandoned(new_parent_ids) : new_parent_ids \in AbandonParents}
      [] OTHER -> {}

RecordingCalls ==
    {"set_rewritten_commit", "set_divergent_rewrite", "record_abandoned_commit",
     "record_abandoned_commit_with_parents"}

\* C24: a recording call for a commit that has an entry replaces the entry,
\* whatever the kinds of the two, and leaves the other entries as they are;
\* rebase_descendants then follows the entry recorded last: a child of the
\* commit is rewritten onto what new_parents makes of that entry when the
\* child is visited, the ids of the entry themselves unless one of them has
\* an entry of its own (and the child is left in place for a Divergent
\* one), and a bookmark on the commit moves to what it resolves to.
C24_LastWriteWins ==
    [][/\ (last'.op \in RecordingCalls /\ nops' = nops + 1 /\ last'.ok) =>
             \E old_id \in RewriteSources \ {Root} :
               \E entry \in EntriesOf(last'.op, old_id) :
                  /\ DOMAIN parent_mapping' = DOMAIN parent_mapping \cup {old_id}
                  /\ parent_mapping'[old_id] = entry
                  /\ \A k \in DOMAIN parent_mapping \ {old_id} :
                        parent_mapping'[k] = parent_mapping[k]
       /\ (pc = "transform" /\ call.op \in RebaseFamily /\ ~panicked') =>
             \A k \in DOMAIN call.pm0, c \in 1..call.ncommits0 :
                (commits[c].parents = <<k>> /\ visited' = Append(visited, c)) =>
                    /\ parent_mapping[k] = call.pm0[k]
                    /\ IF call.pm0[k].kind = "Divergent"
                       THEN progress' = progress
                       ELSE /\ progress' = Append(progress, <<c, Len(commits')>>)
                            /\ commits'[Len(commits')].parents =
                                   NewParents(parent_mapping, <<k>>).ids
                            /\ SeqToSet(NewParentIds(call.pm0[k])) \cap DOMAIN parent_mapping = {}
                                   => commits'[Len(commits')].parents
                                          = NewParentIds(call.pm0[k])
       /\ (EndsTransform /\ call.op \in RebaseFamily) =>
             \A k \in DOMAIN call.pm0 :
                /\ parent_mapping[k] = call.pm0[k]
                /\ (call.bm0["bk"] = Normal(k) /\ local_bookmarks["bk"] = Normal(k)) =>
                      local_bookmarks'["bk"] = Interleaved(ResolvedMap[k], k)
      ]_vars

\* two recording calls were made for B, the second one set_rewritten_commit
\* or an abandon, and rebase_descendants has rewritten C onto the new parents
\* of the entry it found
C24_Witness ==
    /\ CallReturnedOk
    /\ call.op = "rebase_descendants"
    /\ nops = 2
    /\ DOMAIN call.pm0 = {3}
    /\ call.pm0[3] = Abandoned(<<6, 7>>)
    /\ \E i \in 1..Len(progress) :
          /\ progress[i][1] = 4
          /\ commits[progress[i][2]].parents = <<6, 7>>

WcSwitchCalls == {"edit", "check_out", "remove_wc_commit"}

\* the commit the workspace is leaving is to be abandoned: it is discardable,
\* no local bookmark adds it, no other workspace has it as its working-copy
\* commit, and it is a head when the switch is made (for check_out, after the
\* new commit has been written on its target)
LeavingIsAbandoned(name) ==
    LET left == wc_commit_ids[name]
        target == commits'[Len(commits')].parents[1]
    IN /\ left # NoId
       /\ commits[left].desc = 0
       /\ commits[left].tree = MergeCommitTrees(commits, commits[left].parents)
       /\ \A b \in DOMAIN local_bookmarks : left \notin AddedIds(local_bookmarks[b])
       /\ \A n \in WorkspaceNames \ {name} : wc_commit_ids[n] # left
       /\ left \in ObservedHeads
       /\ last'.op = "check_out" => left # target

\* C25: when edit, check_out or remove_wc_commit switches the working-copy
\* commit of a workspace, the commit being left is recorded as Abandoned(its
\* parents) if and only if it is discardable, is no added id of a local
\* bookmark and not the working-copy commit of another workspace, and is a
\* head; in every other case the switch leaves the ledger unchanged.
C25_LeavingWcCommitAbandoned ==
    [][(last'.op \in WcSwitchCalls /\ nops' = nops + 1) =>
          \A name \in EditedWorkspaces :
              IF LeavingIsAbandoned(name)
              THEN parent_mapping' =
                       [k \in DOMAIN parent_mapping \cup {wc_commit_ids[name]} |->
                           IF k = wc_commit_ids[name]
                           THEN Abandoned(commits[k].parents)
                           ELSE parent_mapping[k]]
              ELSE parent_mapping' = parent_mapping
      ]_vars

\* w1 and w2 were both at the empty head D: edit has moved w1 and left the
\* ledger alone
C25_WitnessShared ==
    /\ last = [op |-> "edit", ok |-> TRUE]
    /\ nops = 1
    /\ wc_commit_ids = [w1 |-> 3, w2 |-> 5]
    /\ parent_mapping = EmptyMap

\* edit has left the empty head D and recorded it as abandoned onto C
C25_Witness ==
    /\ last = [op |-> "edit", ok |-> TRUE]
    /\ nops = 1
    /\ wc_commit_ids["w1"] = 3
    /\ parent_mapping = (5 :> Abandoned(<<4>>))

\* C26: merge_view merges the working-copy commit of each workspace that
\* differs between base and other: when self, base and other merge trivially
\* (both sides equal, or one side unchanged) the trivial result is taken;
\* otherwise the workspace is removed when it is absent on the self side or
\* on the other side; otherwise the commit of the self side is kept.
C26_MergeWcCommit ==
    (last.op = "merge" /\ last.ok) =>
        \A name \in WorkspaceNames :
            LET self_id == last.args.self.wc_commit_ids[name]
                base_id == last.args.base.wc_commit_ids[name]
                other_id == last.args.other.wc_commit_ids[name]
                merged == wc_commit_ids[name]
            IN IF base_id = other_id THEN merged = self_id
               ELSE IF self_id = other_id THEN merged = self_id
               ELSE IF self_id = base_id THEN merged = other_id
               ELSE IF self_id = NoId \/ other_id = NoId THEN merged = NoId
               ELSE merged = self_id

\* the other side removed the workspace w1 that the self side had moved from
\* B to C: the merged view has no working-copy commit for w1
C26_Witness ==
    /\ last.op = "merge" /\ last.ok
    /\ last.args.base.wc_commit_ids["w1"] = 3
    /\ last.args.self.wc_commit_ids["w1"] = 4
    /\ last.args.other.wc_commit_ids["w1"] = NoId
    /\ wc_commit_ids["w1"] = NoId

\* the view of one side as the repository the other side is merged into
RepoAt(view) ==
    RepoRecord(commits, view.head_ids, FALSE, view.wc_commit_ids,
               view.local_bookmarks, EmptyMap, FALSE)

\* against the base, the view changes the bookmark a and no other bookmark
ChangesOnly(view, base, a) ==
    /\ view.local_bookmarks[a] # base.local_bookmarks[a]
    /\ \A b \in DOMAIN base.local_bookmarks \ {a} :
          view.local_bookmarks[b] = base.local_bookmarks[b]

\* C27: independent bookmark edits commute under merge_view. When O1 changes
\* only the local bookmark a and O2 only the local bookmark b, a and b
\* different, merging O2 into O1 and merging O1 into O2 give the same
\* local_bookmarks: the value of O1 for a and the value of O2 for b.
C27_BookmarkEditsCommute ==
    (last.op = "merge" /\ last.ok) =>
        \A a \in DOMAIN local_bookmarks, b \in DOMAIN local_bookmarks :
            (/\ a # b
             /\ ChangesOnly(last.args.self, last.args.base, a)
             /\ ChangesOnly(last.args.other, last.args.base, b)) =>
                /\ local_bookmarks[a] = last.args.self.local_bookmarks[a]
                /\ local_bookmarks[b] = last.args.other.local_bookmarks[b]
                /\ \A default_index \in BOOLEAN :
                      Merge(RepoAt(last.args.other), last.args.base, last.args.self,
                            default_index).local_bookmarks = local_bookmarks

\* O1 moved bk from B to C, O2 created dev at C: the merge holds both
C27_Witness ==
    /\ last.op = "merge" /\ last.ok
    /\ last.args.base.local_bookmarks = [bk |-> Normal(3), dev |-> Absent]
    /\ last.args.self.local_bookmarks = [bk |-> Normal(4), dev |-> Absent]
    /\ last.args.other.local_bookmarks = [bk |-> Normal(3), dev |-> Normal(4)]
    /\ local_bookmarks = [bk |-> Normal(4), dev |-> Normal(4)]

\* the split in progress was made with split.legacy-bookmark-behavior set
SplitIsLegacy ==
    /\ call.op = "split"
    /\ SplitTarget \in DOMAIN call.pm0
    /\ call.pm0[SplitTarget] = Rewritten(SplitSecondCommitId)

\* the ids cmd_split gives the two commits it writes first
FirstWritten == Len(BaseCommits) + 1
SecondWritten == Len(BaseCommits) + 2

\* the transaction being finished is a legacy split
FinishesLegacySplit ==
    /\ call.op = "rebase_descendants"
    /\ \E target \in SplitTargets :
          /\ target \in DOMAIN call.pm0
          /\ call.pm0[target] = Rewritten(SecondWritten)

\* the transform_descendants of a legacy split leaves the bookmark and the
\* working copies of the target on the second commit, and every child of the
\* target rewritten onto the second commit alone
SplitTransformMoves ==
    (EndsTransform /\ SplitIsLegacy) =>
        /\ call.bm0["bk"] = Normal(SplitTarget) =>
               local_bookmarks'["bk"] = Normal(SplitSecondCommitId)
        /\ \A name \in SeqToSet(Workspaces) :
               call.wc0[name] = SplitTarget =>
                   wc_commit_ids'[name] = SplitSecondCommitId
        /\ \A child \in 1..(call.ncommits0 - 2) :
               SplitTarget \in SeqToSet(commits[child].parents) =>
                   \E id \in DOMAIN commit_predecessors' :
                       /\ commit_predecessors'[id] = <<child>>
                       /\ commits'[id].parents = <<SplitSecondCommitId>>
                       /\ id \in Visible'

\* the edits that end rewrite_descendants leave the working copies of the
\* target on the second commit and the bookmarks where they are
SplitEditsMove ==
    (SplitIsLegacy /\ last'.op = "rewrite_descendants") =>
        /\ \A name \in SeqToSet(Workspaces) :
               call.wc0[name] = SplitTarget =>
                   wc_commit_ids'[name] = SplitSecondCommitId
        /\ local_bookmarks' = local_bookmarks

\* the bookmarks and the rewritten children are as the split left them when
\* the transaction has finished, and the ledger is empty
SplitFinishKeepsBookmarks ==
    (EndsTransform /\ FinishesLegacySplit) =>
        /\ parent_mapping' = EmptyMap
        /\ local_bookmarks' = local_bookmarks
        /\ visited = <<>>
        /\ \A id \in 1..Len(commits) :
               (commits[id].parents = <<SecondWritten>> /\ id \in Visible) =>
                   id \in Visible'

\* the working copies on the second commit are still on it when the
\* transaction has finished
SplitFinishKeepsWorkingCopies ==
    (EndsTransform /\ FinishesLegacySplit) =>
        \A name \in SeqToSet(Workspaces) :
            wc_commit_ids[name] = SecondWritten =>
                wc_commit_ids'[name] = SecondWritten

\* C28: after jj split of B into B1 <- B2 (not parallel, no move flags,
\* split.legacy-bookmark-behavior set) and the finish of the transaction,
\* every bookmark that was on B is on B2, every workspace that was on B is on
\* B2, every child of B has been rewritten with B2 as its only parent, and
\* parent_mapping is empty. Stated step by step: what rewrite_descendants
\* establishes, and that the finish of the transaction keeps it.
C28_SplitMovesReferences ==
    [][/\ SplitTransformMoves
       /\ SplitEditsMove
       /\ SplitFinishKeepsBookmarks
       /\ SplitFinishKeepsWorkingCopies]_vars

\* the part of C28 that is not about working copies
C28_SplitMovesBookmarksAndChildren ==
    [][/\ SplitTransformMoves
       /\ SplitEditsMove
       /\ SplitFinishKeepsBookmarks]_vars

\* a legacy split has finished and the workspace that was on the target is
\* not on the second commit: the second commit was abandoned
C28_SecondCommitAbandoned ==
    /\ last = [op |-> "rebase_descendants", ok |-> TRUE]
    /\ pc = "idle"
    /\ FinishesLegacySplit
    /\ wc_commit_ids["w1"] \notin {NoId, SecondWritten}
    /\ commits[wc_commit_ids["w1"]].parents = <<FirstWritten>>
    /\ SecondWritten \notin Visible

\* a with_ref callback is running on the dirty value
BorrowOutstanding ==
    \E i \in 1..Len(cell.frames) :
        cell.frames[i].fn = "with_ref" /\ cell.frames[i].borrowed

\* a validator is running
Validating ==
    \E i \in 1..Len(cell.frames) : cell.frames[i].fn = "validator"

\* C29: the dirty cell fails fast on re-entrant validation. A call of
\* ensure_clean or get_or_ensure_clean on a dirty cell while a with_ref
\* callback holds the dirty value panics: no validator is started and the value
\* stays where it is. A call of with_ref from inside the validator panics as
\* well.
C29_ReentrantValidationPanics ==
    [][/\ (/\ ~panicked /\ dirty /\ BorrowOutstanding
           /\ last'.op \in {"ensure_clean", "get_or_ensure_clean"}) =>
              /\ panicked'
              /\ cell' = cell
              /\ head_ids' = head_ids /\ dirty' = dirty
       /\ (~panicked /\ Validating /\ last'.op = "with_ref") =>
              /\ panicked'
              /\ cell' = cell
      ]_vars

\* ensure_clean was called from a with_ref callback on the dirty cell, and
\* has panicked
C29_Witness ==
    /\ panicked
    /\ last = [op |-> "ensure_clean", ok |-> FALSE]
    /\ dirty /\ ~cell.taken
    /\ cell.frames = <<Frame("with_ref", TRUE)>>

\* with_ref was called from the validator, and has panicked
C29_WitnessValidator ==
    /\ panicked
    /\ last = [op |-> "with_ref", ok |-> FALSE]
    /\ cell.taken
    /\ cell.frames = <<Frame("validator", FALSE)>>

\* the commits the call in progress set out to visit
ToVisitSet == SeqToSet(visited) \cup SeqToSet(to_visit)

\* the step passes the commit to the callback
PassesToCallback(id) ==
    /\ pc = "transform"
    /\ visited' = Append(visited, id)

\* the parents the ordering looks at: the overriding ones when there are
\* some
OrderedParents(id) ==
    SeqToSet(ParentIdsFor(commits, call.new_parents_map, id))

\* every parent of the commit that was to be visited has been visited
ParentsVisited(id) ==
    \A parent \in OrderedParents(id) :
        parent \in ToVisitSet => parent \in SeqToSet(visited)

\* every replacement, to be visited, that the ledger of the call had for a
\* parent of the commit has been visited
ReplacementsVisited(id) ==
    \A parent \in OrderedParents(id) :
        parent \in DOMAIN call.pm0 =>
            \A target \in SeqToSet(NewParentIds(call.pm0[parent])) :
                target \in ToVisitSet => target \in SeqToSet(visited)

\* C30: transform_commits visits commits parents-first. A commit is passed to
\* the callback only after every commit of the to-visit set that is one of
\* its parents (the overriding parents when new_parents_map has some), and,
\* when a parent has a ledger entry whose replacement is in the to-visit set,
\* only after that replacement.
C30_VisitsParentsFirst ==
    [][\A id \in 1..Len(commits) :
           PassesToCallback(id) => ParentsVisited(id) /\ ReplacementsVisited(id)
      ]_vars

\* the part of C30 about the parents themselves
C30_VisitsAfterParents ==
    [][\A id \in 1..Len(commits) : PassesToCallback(id) => ParentsVisited(id)]_vars

\* E was passed to the callback before C, the replacement the ledger had for
\* E's parent A, and C was visited later in the same call
C30_ReplacementVisitedLater ==
    /\ call.op = "transform_descendants_with_options"
    /\ 2 \in DOMAIN call.pm0 /\ call.pm0[2] = Rewritten(4)
    /\ 3 \in DOMAIN call.pm0 /\ call.pm0[3] = Rewritten(6)
    /\ call.new_parents_map = EmptyMap
    /\ visited = <<6, 4>>

\* D was passed to the callback after E, the parent that overrides C
C30_OverridingParentFirst ==
    /\ call.op = "transform_descendants_with_options"
    /\ call.new_parents_map = 6 :> <<5>>
    /\ \E i, j \in 1..Len(visited) : i < j /\ visited[i] = 5 /\ visited[j] = 6

\* the calls that count what they rebase
CountingCalls == {"rebase_descendants", "reparent_descendants", "diffedit"}

\* num_reparented + num_rebased
Counts(n) == n.reparented + n.rebased

\* the commit has new parents when it is passed to the callback
GetsNewParents(id) ==
    NewParents(parent_mapping, commits[id].parents).ids # commits[id].parents

\* C31: rebase_descendants and reparent_descendants return the number of
\* visited descendants whose new parents differ from their old ones, each
\* counted once: the counter starts at zero, a visit adds one exactly when the
\* commit has new parents, and then one progress callback is issued; a commit
\* whose parents are unchanged is neither rewritten nor counted. rebase counts
\* only rebases, reparent only reparents, and in jj diffedit and jj restore
\* num_reparented + num_rebased is that number.
C31_CountsRewrittenDescendants ==
    /\ [](call.op \in CountingCalls =>
            /\ Counts(num) = Len(progress)
            /\ \A i, j \in 1..Len(visited) : visited[i] = visited[j] => i = j
            /\ call.op = "rebase_descendants" => num.reparented = 0
            /\ call.op = "reparent_descendants" => num.rebased = 0)
    /\ [][/\ (pc # "transform" /\ pc' = "transform") => num' = NoCounts
          /\ (pc = "transform" /\ call.op \in CountingCalls /\ ~panicked') =>
                /\ \A id \in 1..Len(commits) :
                      visited' = Append(visited, id) =>
                         IF GetsNewParents(id)
                         THEN /\ Counts(num') = Counts(num) + 1
                              /\ progress' = Append(progress, <<id, Len(commits')>>)
                              /\ Len(commits') = Len(commits) + 1
                         ELSE /\ num' = num /\ progress' = progress
                              /\ commits' = commits
                              /\ parent_mapping' = parent_mapping
                /\ visited' = visited => num' = num
         ]_vars

\* jj diffedit of B with the snapshot of D to be restored has returned: C was
\* rebased and D reparented, two descendants in all
C31_Witness ==
    /\ CallReturnedOk
    /\ call.op = "diffedit"
    /\ call.roots = {3}
    /\ visited = <<4, 5>>
    /\ num = [reparented |-> 1, rebased |-> 1]
    /\ Len(progress) = 2

\* rebase_descendants has returned 0: the only commit it visited is the child
\* of a divergent commit
C31_WitnessDivergent ==
    /\ CallReturnedOk
    /\ call.op = "rebase_descendants"
    /\ \E k \in DOMAIN call.pm0 : call.pm0[k].kind = "Divergent"
    /\ visited # <<>>
    /\ num = NoCounts
    /\ Len(commits) = call.ncommits0

\* the call in the call record has returned an Err and nothing was called since
CallReturnedErr ==
    /\ pc = "idle" /\ ~panicked
    /\ call # NoCall
    /\ last.op = call.op
    /\ ~last.ok

\* C32: when the callback or a store read fails during transform_commits, the
\* call returns at once: heads, bookmarks and working copies are as the step
\* before (update_rewritten_references is not run), parent_mapping is as the
\* step before and so holds every entry recorded so far, and no commit is
\* visited until another call is made.
C32_ErrorReturnsAtOnce ==
    /\ [](CallReturnedErr =>
            \A k \in DOMAIN call.pm0 : k \in DOMAIN parent_mapping)
    /\ [][/\ (pc = "transform" /\ pc' = "idle" /\ ~panicked' /\ ~last'.ok) =>
                /\ head_ids' = head_ids /\ dirty' = dirty
                /\ local_bookmarks' = local_bookmarks
                /\ wc_commit_ids' = wc_commit_ids
                /\ commits' = commits
                /\ parent_mapping' = parent_mapping
                /\ progress' = progress
          /\ CallReturnedErr =>
                \/ pc' = "transform"
                \/ visited' = visited /\ to_visit' = to_visit
         ]_vars

\* rebase_descendants has failed on its second commit: the first one is
\* rewritten and recorded, the ledger has kept
\* the entries it started with and the one of the callback, and the bookmark
\* still points at a rewritten commit
C32_Witness ==
    /\ CallReturnedErr
    /\ call.op = "rebase_descendants"
    /\ Len(visited) = 2
    /\ Len(progress) = 1
    /\ DOMAIN call.pm0 # {}
    /\ DOMAIN parent_mapping # DOMAIN call.pm0
    /\ \E id \in AddedIds(local_bookmarks["bk"]) : id \in DOMAIN parent_mapping
    /\ \E id \in head_ids : id \in DOMAIN parent_mapping

\* a call has failed on the first commit it popped, with commits left to visit
C32_WitnessUnvisited ==
    /\ CallReturnedErr
    /\ Len(visited) = 1 /\ to_visit # <<>>
    /\ DOMAIN parent_mapping = DOMAIN call.pm0

\* the step starts a validator
ValidatorStarts ==
    /\ Len(cell'.frames) = Len(cell.frames) + 1
    /\ cell'.frames[Len(cell'.frames)].fn = "validator"

\* C33: under any sequence of with_clean, mark_dirty, get_mut, with_ref and
\* get_or_ensure_clean, exactly one of the two slots holds the value unless a
\* validator is running (then it holds the value and both slots are empty);
\* the validator is started only on a dirty cell, by ensure_clean or
\* get_or_ensure_clean, at most once for each time the value goes to the
\* dirty slot and exactly once before it is clean again; the first
\* get_or_ensure_clean after mark_dirty starts it; mark_dirty on a dirty cell
\* and get_mut leave both slots as they are.
C33_OneSlotOneValidation ==
    /\ [](/\ cell.taken <=> Validating
          /\ IF cell.taken
             THEN ~CleanIsSet /\ ~DirtyIsSet
             ELSE CleanIsSet # DirtyIsSet
          /\ dirty = ~CleanIsSet
          /\ cell.runs \in {0, 1}
          /\ DirtyIsSet => cell.runs = 0
          /\ cell.taken => cell.runs = 1)
    /\ [][/\ ValidatorStarts =>
                /\ ~CleanIsSet /\ DirtyIsSet /\ cell.runs = 0
                /\ last'.op \in {"ensure_clean", "get_or_ensure_clean"}
          /\ (/\ last'.op \in {"ensure_clean", "get_or_ensure_clean"}
              /\ CleanIsSet) =>
                cell' = cell /\ head_ids' = head_ids /\ ~panicked'
          /\ (/\ last'.op \in {"ensure_clean", "get_or_ensure_clean"}
              /\ last.op = "mark_dirty") => ValidatorStarts
          /\ (~CleanIsSet /\ cell'.clean /\ last'.op # "with_clean") =>
                /\ cell.runs = 1 /\ cell.taken
                /\ last'.op = "return"
          /\ (last'.op = "mark_dirty" /\ ~CleanIsSet) =>
                cell' = cell /\ head_ids' = head_ids /\ dirty' = dirty
          /\ last'.op = "get_mut" =>
                cell' = cell /\ dirty' = dirty
         ]_vars

\* the cell went dirty twice and was validated each time; the second dirty
\* period saw mark_dirty twice and a get_mut
C33_Witness ==
    /\ ~panicked
    /\ last.op = "return"
    /\ CleanIsSet /\ cell.runs = 1
    /\ cell.frames = <<>>
    /\ head_ids = {5, 6}

\* mark_dirty was called on a cell that was dirty already
C33_WitnessMarkedTwice ==
    /\ ~panicked
    /\ last.op = "mark_dirty"
    /\ DirtyIsSet /\ cell.runs = 0
    /\ head_ids = {4, 5, 6, 7}

\* resolve_rewrite_mapping_with has returned
Resolved == last.op = "resolve_rewrite_mapping_with" /\ last.ok

\* C34: on a ledger without a cycle through the entries that pass the
\* predicate, resolve_rewrite_mapping_with returns a map, whatever order the
\* topological sort hands the keys out in; its keys are the ledger keys whose
\* entry passes the predicate, and the value of each key k is what
\* rewritten_ids_with([k], predicate) returns: the same ids in the same order,
\* no id twice. The debug assertion of the loop compares the same two values.
C34_ResolvedMapAgreesWithWalk ==
    last.op = "resolve_rewrite_mapping_with" =>
        /\ last.ok = ~LedgerHasCycle(parent_mapping, last.args)
        /\ last.ok =>
              /\ DOMAIN last.value =
                    {k \in DOMAIN parent_mapping : Passes(parent_mapping, k, last.args)}
              /\ TopoKeyOrders(parent_mapping, last.args) # {}
              /\ \A o \in TopoKeyOrders(parent_mapping, last.args) :
                    ResolveLoop(parent_mapping, last.args, o, EmptyMap) = last.value
              /\ \A k \in DOMAIN last.value :
                    LET walk == RewrittenIdsWith(parent_mapping, <<k>>, last.args)
                    IN /\ ~walk.panic
                       /\ last.value[k] = walk.ids
                       /\ Unique(walk.ids) = walk.ids

\* B was abandoned onto C and E, C rewritten as E, and D is divergent: with the
\* predicate of new_parents B resolves to E once, and D has no entry
C34_Witness ==
    /\ Resolved
    /\ last.args = {"Rewritten", "Abandoned"}
    /\ parent_mapping = (3 :> Abandoned(<<4, 6>>) @@ 4 :> Rewritten(6)
                           @@ 5 :> Divergent(<<6, 7>>))
    /\ last.value = (3 :> <<6>> @@ 4 :> <<6>>)

\* the filter state in force for the path: that of the line chained last
\* among the lines that match the path and assign filter
EffectiveFilter(file, path) ==
    LET assigns(l, k) ==
            {a \in 1..Len(file.search[l].lines[k].assignments) :
                file.search[l].lines[k].assignments[a].name = "filter"}
        at == {lk \in {<<l, k>> : l \in 1..Len(file.search), k \in 1..3} :
                  /\ lk[2] <= Len(file.search[lk[1]].lines)
                  /\ PatternMatches(file.search[lk[1]],
                                    file.search[lk[1]].lines[lk[2]], path)
                  /\ assigns(lk[1], lk[2]) # {}}
        Later(x, y) == x[1] > y[1] \/ (x[1] = y[1] /\ x[2] >= y[2])
    IN IF at = {} THEN AttrUnspecified
       ELSE LET top == CHOOSE x \in at : \A y \in at : Later(x, y)
                line == file.search[top[1]].lines[top[2]]
            IN line.assignments[CHOOSE a \in assigns(top[1], top[2]) : TRUE].state

C35_WitnessOtherAttribute ==
    /\ Len(attrs) = 2
    /\ attrs[1] = NewAttributesFile(<<>>, <<"binary", "git-crypt">>)
    /\ attrs[2].search =
          <<[prefix |-> <<>>,
             lines |-> <<AttrLine("bin", <<Assign("diff", AttrValue("binary"))>>)>>]>>
    /\ last.op = "matches" /\ last.args = <<2, AttrPath(<<>>, "file", "bin")>>
    /\ ~last.value

\* the ids the other refs point at
OtherRefIds ==
    UNION ({AddedIds(refs.tags[n]) : n \in DOMAIN refs.tags}
           \cup {AddedIds(refs.git_refs[n]) : n \in DOMAIN refs.git_refs}
           \cup {AddedIds(refs.remote_bookmarks[n].target) :
                    n \in DOMAIN refs.remote_bookmarks}
           \cup {AddedIds(refs.git_head)})

\* C36: no step of transform_descendants or of rebase_descendants, the
\* update_rewritten_references at its end included, changes the tags, the git
\* refs, the remote bookmarks (target and state) or git_head of the view,
\* whatever commits they point at.
C36_OtherRefsUntouched ==
    [][(pc = "transform" \/ pc' = "transform") => refs' = refs]_vars

\* a call has returned that moved the local bookmark, a working copy or the
\* heads away from rewritten or abandoned commits which the tag, the remote
\* bookmark or git_head still point at
C36_Witness ==
    /\ CallReturnedOk
    /\ call.op \in {"rebase_descendants", "transform_descendants"}
    /\ \E k \in DOMAIN call.pm0 : k \in AddedIds(call.bm0["bk"])
    /\ local_bookmarks # call.bm0
    /\ head_ids # call.heads0
    /\ \E k \in DOMAIN call.pm0 : call.pm0[k].kind = "Rewritten" /\ k \in OtherRefIds
    /\ \E k \in DOMAIN call.pm0 : call.pm0[k].kind = "Abandoned" /\ k \in OtherRefIds
    /\ refs # BaseRefs

\* the keys parent_mapping has as update_rewritten_references runs at the end
\* of the call in progress: those it held before, and those recorded when a
\* working copy is left
KeysOfCall ==
    DOMAIN parent_mapping
        \cup DOMAIN UpdateAllReferences(Repo, call.delete_abandoned_bookmarks).parent_mapping

\* C37: during rebase_descendants the ledger only gains keys, and when the
\* call returns Ok on an acyclic ledger no working-copy commit, no added id of
\* a local bookmark and no head of the view, as stored or as observed, is one
\* of those keys.
C37_NoReferenceToRewritten ==
    [][/\ (pc = "transform" /\ pc' = "transform") =>
             \A k \in DOMAIN parent_mapping : k \in DOMAIN parent_mapping'
       /\ (/\ EndsTransform /\ last'.ok
           /\ call.op = "rebase_descendants"
           /\ ~LedgerHasCycle(parent_mapping, RewriteKinds)) =>
             /\ \A k \in DOMAIN call.pm0 : k \in KeysOfCall
             /\ \A name \in WorkspaceNames : wc_commit_ids'[name] \notin KeysOfCall
             /\ \A name \in BookmarkNames :
                   AddedIds(local_bookmarks'[name]) \cap KeysOfCall = {}
             /\ head_ids' \cap KeysOfCall = {}
             /\ EnforceViewInvariants(commits', head_ids') \cap KeysOfCall = {}
      ]_vars

\* rebase_descendants has returned Ok after a divergent rewrite of the commit
\* the bookmark was on and of the commit both workspaces were on; a head was
\* rewritten as well, and the bookmark is now a conflict
C37_Witness ==
    /\ CallReturnedOk
    /\ call.op = "rebase_descendants"
    /\ \E k \in DOMAIN call.pm0 : k \in AddedIds(call.bm0["bk"])
    /\ \E k \in DOMAIN call.pm0 : call.wc0["w1"] = k
    /\ call.heads0 \cap DOMAIN call.pm0 # {}
    /\ Len(local_bookmarks["bk"]) = 3
    /\ Len(visited) > 0

\* the step is a call of op that returned Err(RewriteRootCommit)
FailsOnRoot(op) ==
    /\ Idle /\ nops' = nops + 1
    /\ last'.op = op /\ ~last'.ok /\ ~panicked'

\* the view and the ledger are as before the step
ViewAndLedgerKept ==
    /\ head_ids' = head_ids /\ dirty' = dirty
    /\ wc_commit_ids' = wc_commit_ids
    /\ local_bookmarks' = local_bookmarks
    /\ parent_mapping' = parent_mapping

\* C38: an edit or a set_wc_commit that returns RewriteRootCommit leaves
\* head_ids, wc_commit_ids, the bookmarks and parent_mapping as they were
\* before the call.
C38_FailedSwitchChangesNothing ==
    [][(FailsOnRoot("edit") \/ FailsOnRoot("set_wc_commit")) => ViewAndLedgerKept]_vars

\* the part of C38 that set_wc_commit bears out
C38_FailedSetWcCommitChangesNothing ==
    [][FailsOnRoot("set_wc_commit") => ViewAndLedgerKept]_vars

\* edit(w1, root) has returned Err: D, which w1 is still on, is recorded as
\* abandoned, and the root commit is among the stored heads
C38_FailedEditChangedLedgerAndHeads ==
    /\ last = [op |-> "edit", ok |-> FALSE]
    /\ ~panicked
    /\ nops = 1
    /\ wc_commit_ids["w1"] = 5
    /\ 5 \in DOMAIN parent_mapping /\ parent_mapping[5].kind = "Abandoned"
    /\ Root \in head_ids /\ ~dirty

\* set_wc_commit(w1, root) has returned Err
C38_FailedSetWcCommit ==
    /\ last = [op |-> "set_wc_commit", ok |-> FALSE]
    /\ ~panicked

\* the step is add_head(head) on a view whose heads are normalised and hold
\* every parent of head
AddsOnHeads(head) ==
    /\ Idle /\ nops' = nops + 1
    /\ last'.op = "add_head" /\ last'.args = head
    /\ ~dirty /\ head_ids = EnforceViewInvariants(commits, head_ids)
    /\ SeqToSet(commits[head].parents) \subseteq head_ids

\* the heads the general path of add_heads shows: the head inserted and the
\* set normalised by enforce_view_invariants
GeneralPathHeads(head) == EnforceViewInvariants(commits, head_ids \cup {head})

\* C39: for a head whose parents are all current heads of a clean view, a
\* commit with no parents included, the incremental path of add_heads leaves
\* the heads the general path would show.
C39_IncrementalMatchesGeneral ==
    [][\A head \in CommitIds(commits) :
          AddsOnHeads(head) =>
             /\ EnforceViewInvariants(commits', head_ids') = GeneralPathHeads(head)
             /\ ~dirty' => head_ids' = GeneralPathHeads(head)]_vars

\* the part of C39 that the code bears out: a head that has a parent
C39_IncrementalMatchesGeneralWithParents ==
    [][\A head \in CommitIds(commits) :
          (AddsOnHeads(head) /\ commits[head].parents # <<>>) =>
             /\ ~dirty'
             /\ head_ids' = GeneralPathHeads(head)]_vars

\* add_head(root commit) on the clean view with the heads D, E and F has left
\* the root among the heads of a view that is not dirty
C39_RootKeptAmongHeads ==
    /\ last = [op |-> "add_head", ok |-> TRUE, args |-> Root]
    /\ nops = 1
    /\ ~dirty
    /\ head_ids = {Root, 5, 6, 7}

\* add_head(D) on the clean view with the heads C and E has taken the
\* incremental path
C39_HeadAddedOnHead ==
    /\ last = [op |-> "add_head", ok |-> TRUE, args |-> 5]
    /\ nops = 1
    /\ ~dirty
    /\ head_ids = {5, 6}

\* ------------------------------------------------------- C40
Walking == pc = "walk"

WalkEnded == pc = "idle" /\ last.op = "rewritten_ids_with"

\* the distinct ids of the input and of the ledger, keys and new parents
WalkIds ==
    SeqToSet(call.old_ids) \cup DOMAIN parent_mapping
        \cup UNION {SeqToSet(NewParentIds(parent_mapping[k])) : k \in DOMAIN parent_mapping}

\* the ways the walk ends
EndsWithResult == last.ok /\ last.value # <<>> /\ call.to_visit = <<>>

EndsOnEmptyResult ==
    ~last.ok /\ call.old_ids # <<>> /\ call.to_visit = <<>> /\ call.new_ids = <<>>
        /\ \A id \in call.visited :
              Passes(parent_mapping, id, call.predicate)
                  /\ NewParentIds(parent_mapping[id]) # <<>>

EndsOnEmptyReplacement ==
    /\ ~last.ok /\ call.expanded # <<>>
    /\ LET id == call.expanded[Len(call.expanded)]
       IN /\ Passes(parent_mapping, id, call.predicate)
          /\ NewParentIds(parent_mapping[id]) = <<>>

\* assert!(!old_ids.is_empty()) at the entry: no walk takes place
EndsOnEmptyInput == ~last.ok /\ call.old_ids = <<>>

\* C40: rewritten_ids_with terminates on every ledger, cyclic or not: an id
\* is expanded at most once, so the expansions never outnumber the distinct
\* ids of the input and the ledger, the turns stay under MaxTurns, and a
\* walk that has begun ends, with the result of the loop or with the
\* empty-result or the empty-replacement assertion; a call with no old id
\* fails the assertion on old_ids before any turn
C40_WalkTerminates ==
    /\ [](call.op = "rewritten_ids_with" =>
            /\ \A i, j \in 1..Len(call.expanded) :
                  i # j => call.expanded[i] # call.expanded[j]
            /\ SeqToSet(call.expanded) = call.visited
            /\ Len(call.expanded) <= Cardinality(WalkIds)
            /\ (Walking /\ call.to_visit # <<>> => call.turns < MaxTurns)
            /\ (WalkEnded =>
                  /\ IF call.old_ids = <<>>
                     THEN EndsOnEmptyInput /\ call.turns = 0
                     ELSE EndsWithResult \/ EndsOnEmptyResult \/ EndsOnEmptyReplacement
                  /\ LET whole == RewrittenIdsWith(parent_mapping, call.old_ids,
                                                   call.predicate)
                     IN last.ok = ~whole.panic /\ last.value = whole.ids))
    /\ (Walking ~> WalkEnded)

\* a walk over a cyclic ledger has ended on the empty-result assertion, B
\* and C each expanded once
C40_Witness ==
    /\ WalkEnded /\ EndsOnEmptyResult
    /\ LedgerHasCycle(parent_mapping, call.predicate)
    /\ call.expanded = <<3, 4>>
    /\ call.turns = 3

\* a walk over a cyclic ledger has ended with a result, an id met again
\* having been skipped
C40_WitnessResult ==
    /\ WalkEnded /\ EndsWithResult
    /\ LedgerHasCycle(parent_mapping, call.predicate)
    /\ call.turns > Len(call.expanded)

\* a walk has ended on the empty-replacement assertion
C40_WitnessEmptyReplacement ==
    /\ WalkEnded /\ EndsOnEmptyReplacement
    /\ call.to_visit # <<>>

====
